---- MODULE Spec2Model ----
(***************************************************************************)
(* A model of the fuzzy license matching engine of the SLA repository:    *)
(* the anchor-indexed gap-tolerant aligner, the LCS matchers of the       *)
(* prototypes, the sweep that stores match results on file records and    *)
(* the best-match evaluator.                                               *)
(*                                                                         *)
(* Conventions.  A normalized text is modelled by the sequence of its      *)
(* whitespace-delimited tokens (what WORD_RE.finditer yields); a slice of  *)
(* the text from a token's start to a token's end is the corresponding     *)
(* subsequence of tokens.  Indices into token lists are 0-based, as in the *)
(* source; At(s, i) reads s[i].  Python's None is NoneIdx (-1) for an      *)
(* optional index, the empty tuple for an optional MatchResult, and        *)
(* PyNone for an optional str / list value.  A match_percent              *)
(* (matches / n_pattern) * 100.0 is kept as the exact fraction             *)
(* [num |-> matches * 100, den |-> n_pattern].                             *)
(***************************************************************************)
EXTENDS Integers, Sequences, FiniteSets, TLC

VARIABLES
    \* ---- one call of a matcher (SpecMatch) ----
    call,            \* which matcher is called: "indexed", "in_file", "prepared"
    file_tokens,     \* the file's normalized tokens
    pattern_tokens,  \* the pattern's normalized tokens
    anchor_size,     \* best_match_indexed's anchor_size argument
    gap_lookahead,   \* best_match_indexed's gap_lookahead argument
    mpc,             \* position in the call: "start", "loop", "done"
    remaining,       \* common anchors the loop of best_match_indexed has not visited
    best_result,     \* best_result of best_match_indexed / the value returned
    walks,           \* number of _align_with_gaps calls made so far
    dp_runs,         \* number of _lcs_dp_with_indices calls made so far
    \* ---- the batch run over the file records (Spec, SpecEval) ----
    sweep,           \* which sweep runs: "indexed" (main), "in_file", "prepared"
    file_content,    \* per file: its normalized content (tokens)
    licenses,        \* the reference licenses in load order: [path, text]
    file_indexes,    \* Config.file_indexes
    pattern_indexes, \* Config.license_header_indexes
    pc,              \* position in the run
    f_i,             \* index of the current file of the running loop
    p_i,             \* index of the current pattern of the sweep's inner loop
    fuzzy_license_matches,  \* per file: file_data.fuzzy_license_matches
    license_names,   \* per file: file_data.license_names
    fuzzy_license_match,    \* per file: file_data.fuzzy_license_match
    match_writes,    \* per file: number of assignments to fuzzy_license_match
    \* ---- locals of determine_best_fuzzy_match_from_file_data ----
    cand_i,          \* index of the candidate the inner loop examines next
    best_match_percent,
    best_exact_match_percent,
    best_fuzzy_match,
    prior_match_version_was_exact,
    \* ---- remove_punctuation_and_normalize_text applied twice (SpecNorm) ----
    norm_pc,         \* "idle"; "raw", "once", "twice": how often it was applied
    raw_value,       \* the text given to the first application (characters)
    normalized,      \* the value the first application returned
    renormalized,    \* the value the second application returned
    \* one call of _extract_versions
    ver_pc,          \* "idle"; "text", "done"
    ver_text,        \* the tokens of the text given to _extract_versions
    ver_result       \* the value it returned

match_vars == <<call, file_tokens, pattern_tokens, anchor_size, gap_lookahead,
                mpc, remaining, best_result, walks, dp_runs>>

input_vars == <<sweep, file_content, licenses>>

run_vars == <<file_indexes, pattern_indexes, pc, f_i, p_i>>

record_vars == <<fuzzy_license_matches, license_names, fuzzy_license_match,
                 match_writes>>

eval_vars == <<cand_i, best_match_percent, best_exact_match_percent,
               best_fuzzy_match, prior_match_version_was_exact>>

norm_vars == <<norm_pc, raw_value, normalized, renormalized>>

ver_vars == <<ver_pc, ver_text, ver_result>>

vars == <<match_vars, input_vars, run_vars, record_vars, eval_vars, norm_vars,
          ver_vars>>

(***************************************************************************)
(* Bounds of the model and constants of the program.                       *)
(***************************************************************************)
MaxFileLen == 4
MaxPatLen == 5
MaxGap == 2

DEFAULT_ANCHOR_SIZE == 3
DEFAULT_GAP_LOOKAHEAD == 5
MIN_KEEP_PERCENT == 50
STRONG_MATCH_THRESHOLD == 80

\* Tokens of the texts handed to a single matcher call.
MatchAlphabet == {"a", "b"}
\* anchor_size values a caller passes (the default and one below it).
AnchorSizes == {DEFAULT_ANCHOR_SIZE - 1, DEFAULT_ANCHOR_SIZE}

(***************************************************************************)
(* Python values.                                                          *)
(***************************************************************************)
NoneIdx == -1
PyNone == [kind |-> "none", items |-> <<>>]
PyStr(s) == [kind |-> "str", items |-> <<s>>]
PyList(l) == [kind |-> "list", items |-> l]

At(s, i) == s[i + 1]

SeqsUpTo(S, n) == UNION {[1..k -> S] : k \in 0..n}

\* (matches / n_pattern) * 100.0 as an exact fraction, and its comparisons.
Percent(matches, n) == [num |-> matches * 100, den |-> n]
PctOf(k) == [num |-> k, den |-> 1]
PctGT(a, b) == a.num * b.den > b.num * a.den
PctGE(a, b) == a.num * b.den >= b.num * a.den

(***************************************************************************)
(* Tokens with character spans (_tokenize_with_spans): in a normalized     *)
(* text the tokens are separated by exactly one space.                     *)
(***************************************************************************)
RECURSIVE TokenStart(_, _)
TokenStart(tokens, i) ==
    IF i = 0 THEN 0 ELSE TokenStart(tokens, i - 1) + Len(At(tokens, i - 1)) + 1

TokenEnd(tokens, i) == TokenStart(tokens, i) + Len(At(tokens, i))

\* text[start_char:end_char] for the span from token i to token last.
TextSlice(tokens, i, last) == SubSeq(tokens, i + 1, last + 1)

(***************************************************************************)
(* MatchResult.                                                            *)
(***************************************************************************)
MatchResult(substring, percent, start, end) ==
    [matched_substring |-> substring, match_percent |-> percent,
     start_index |-> start, end_index |-> end,
     expected_version |-> PyNone, found_version |-> PyNone,
     license_name |-> PyNone]

(***************************************************************************)
(* The anchor index: anchor (tuple of anchor_size consecutive tokens) ->   *)
(* list of the positions where it starts, filled by                        *)
(* setdefault(anchor, []).append(j) for j = 0 .. len(tokens) - anchor_size.*)
(***************************************************************************)
AnchorAtShort(tokens, j, k) == SubSeq(tokens, j + 1, j + k - 1)

AnchorAt(tokens, j, k) == SubSeq(tokens, j + 1, j + k)

\* A variant of setdefault(...).append(j) that restarts the list of a key
\* already present.
SetDefaultOverwrite(map, key, j) ==
    [a \in DOMAIN map \cup {key} |-> IF a = key THEN <<j>> ELSE map[a]]

SetDefaultAppend(map, key, j) ==
    IF key \in DOMAIN map
    THEN [map EXCEPT ![key] = Append(@, j)]
    ELSE [a \in DOMAIN map \cup {key} |-> IF a = key THEN <<j>> ELSE map[a]]

\* A variant of the loop that stops one start index early.
RECURSIVE BuildAnchorsButLast(_, _, _, _)
BuildAnchorsButLast(tokens, k, j, map) ==
    IF j >= Len(tokens) - k
    THEN map
    ELSE BuildAnchorsButLast(tokens, k, j + 1,
                             SetDefaultAppend(map, AnchorAt(tokens, j, k), j))

RECURSIVE BuildAnchorsFrom(_, _, _, _)
BuildAnchorsFrom(tokens, k, j, map) ==
    IF j >= Len(tokens) - k + 1
    THEN map
    ELSE BuildAnchorsFrom(tokens, k, j + 1,
                          SetDefaultAppend(map, AnchorAt(tokens, j, k), j))

EmptyMap == [a \in {} |-> <<>>]

AnchorPositions(tokens, k) == BuildAnchorsFrom(tokens, k, 0, EmptyMap)

(***************************************************************************)
(* _align_with_gaps: the greedy walk.  A walk state is                     *)
(* [fi, pj, matches, last_match_file_idx].                                 *)
(***************************************************************************)
\* for k in range(1, gap_lookahead + 1): if pos + k >= n: break;
\*     if seq[pos + k] == target: found = pos + k; break
FindAhead(seq, pos, target, gap) ==
    LET hits == {k \in 1..gap : pos + k < Len(seq) /\ At(seq, pos + k) = target}
    IN IF hits = {} THEN NoneIdx
       ELSE pos + (CHOOSE k \in hits : \A h \in hits : k <= h)

\* A variant of the start that re-enters the walk at the anchor's last token.
WalkInitInsideAnchor(fi_start, pj_start) ==
    [fi |-> fi_start - 1, pj |-> pj_start - 1, matches |-> 0,
     last_match_file_idx |-> fi_start - 1]

WalkInit(fi_start, pj_start) ==
    [fi |-> fi_start, pj |-> pj_start, matches |-> 0,
     last_match_file_idx |-> fi_start - 1]

WalkRunning(ft, pt, w) == w.fi < Len(ft) /\ w.pj < Len(pt)

\* The match branch with the pattern index left where it is.
WalkMatchStuck(w) ==
    [w EXCEPT !.matches = @ + 1, !.last_match_file_idx = w.fi, !.fi = @ + 1]

WalkMatch(w) ==
    [w EXCEPT !.matches = @ + 1, !.last_match_file_idx = w.fi,
              !.fi = @ + 1, !.pj = @ + 1]

\* A variant of the iteration that, when neither lookahead finds a match,
\* advances both indices by two.
WalkStepSkipsTwo(ft, pt, w, gap) ==
    IF At(ft, w.fi) = At(pt, w.pj)
    THEN WalkMatch(w)
    ELSE LET found_in_file == FindAhead(ft, w.fi, At(pt, w.pj), gap)
             found_in_pattern == FindAhead(pt, w.pj, At(ft, w.fi), gap)
         IN IF found_in_file # NoneIdx
               /\ (found_in_pattern = NoneIdx
                   \/ (found_in_file - w.fi) <= (found_in_pattern - w.pj))
            THEN [w EXCEPT !.fi = found_in_file]
            ELSE IF found_in_pattern # NoneIdx
            THEN [w EXCEPT !.pj = found_in_pattern]
            ELSE [w EXCEPT !.fi = @ + 2, !.pj = @ + 2]

\* A variant of the iteration in which a tie between the two distances
\* resyncs on the pattern side.
WalkStepTiesToPattern(ft, pt, w, gap) ==
    IF At(ft, w.fi) = At(pt, w.pj)
    THEN WalkMatch(w)
    ELSE LET found_in_file == FindAhead(ft, w.fi, At(pt, w.pj), gap)
             found_in_pattern == FindAhead(pt, w.pj, At(ft, w.fi), gap)
         IN IF found_in_file # NoneIdx
               /\ (found_in_pattern = NoneIdx
                   \/ (found_in_file - w.fi) < (found_in_pattern - w.pj))
            THEN [w EXCEPT !.fi = found_in_file]
            ELSE IF found_in_pattern # NoneIdx
            THEN [w EXCEPT !.pj = found_in_pattern]
            ELSE [w EXCEPT !.fi = @ + 1, !.pj = @ + 1]

\* One iteration of the while loop.
WalkStep(ft, pt, w, gap) ==
    IF At(ft, w.fi) = At(pt, w.pj)
    THEN WalkMatch(w)
    ELSE LET found_in_file == FindAhead(ft, w.fi, At(pt, w.pj), gap)
             found_in_pattern == FindAhead(pt, w.pj, At(ft, w.fi), gap)
         IN IF found_in_file # NoneIdx
               /\ (found_in_pattern = NoneIdx
                   \/ (found_in_file - w.fi) <= (found_in_pattern - w.pj))
            THEN [w EXCEPT !.fi = found_in_file]
            ELSE IF found_in_pattern # NoneIdx
            THEN [w EXCEPT !.pj = found_in_pattern]
            ELSE [w EXCEPT !.fi = @ + 1, !.pj = @ + 1]

RECURSIVE WalkFrom(_, _, _, _)
WalkFrom(ft, pt, w, gap) ==
    IF WalkRunning(ft, pt, w)
    THEN WalkFrom(ft, pt, WalkStep(ft, pt, w, gap), gap)
    ELSE w

\* Returns (extra_matches, last_match_file_idx).
AlignWithGaps(ft, pt, fi_start, pj_start, gap) ==
    LET w == WalkFrom(ft, pt, WalkInit(fi_start, pj_start), gap)
    IN <<w.matches, w.last_match_file_idx>>

(***************************************************************************)
(* best_match_indexed: the body of the loops for one (i, j0) pair, and the *)
(* nested loops over the positions of one common anchor.                   *)
(***************************************************************************)
\* A variant of the loop body that ends the span at the last file token the
\* walk visited.
AlignPairToWalkEnd(ft, pt, i, j0, k, gap) ==
    LET w == WalkFrom(ft, pt, WalkInit(i + k, j0 + k), gap)
        last_visited == w.fi - 1
    IN MatchResult(TextSlice(ft, i, last_visited),
                   Percent(k + w.matches, Len(pt)),
                   TokenStart(ft, i), TokenEnd(ft, last_visited))

AlignPair(ft, pt, i, j0, k, gap) ==
    LET extra == AlignWithGaps(ft, pt, i + k, j0 + k, gap)
        matches == k + extra[1]
        last_match_file_idx == IF extra[1] > 0 THEN extra[2] ELSE i + k - 1
    IN MatchResult(TextSlice(ft, i, last_match_file_idx),
                   Percent(matches, Len(pt)),
                   TokenStart(ft, i), TokenEnd(ft, last_match_file_idx))

\* A variant of the comparison that keeps the latest alignment.
KeepLatest(best, r) == <<r>>

\* if best_result is None or match_percent > best_result.match_percent
KeepBest(best, r) ==
    IF best = <<>> \/ PctGT(r.match_percent, best[1].match_percent)
    THEN <<r>> ELSE best

RECURSIVE AlignPatternPositions(_, _, _, _, _, _, _)
AlignPatternPositions(ft, pt, i, js, k, gap, best) ==
    IF js = <<>> THEN best
    ELSE AlignPatternPositions(ft, pt, i, Tail(js), k, gap,
                               KeepBest(best, AlignPair(ft, pt, i, Head(js), k, gap)))

RECURSIVE AlignFilePositions(_, _, _, _, _, _, _)
AlignFilePositions(ft, pt, is, js, k, gap, best) ==
    IF is = <<>> THEN best
    ELSE AlignFilePositions(ft, pt, Tail(is), js, k, gap,
                            AlignPatternPositions(ft, pt, Head(is), js, k, gap, best))

\* FileIndex and PatternIndex, as build_file_indexes and
\* build_pattern_indexes_from_dict fill them.
FileIndex(tokens, k) ==
    [tokens |-> tokens, trigram_positions |-> AnchorPositions(tokens, k)]

PatternIndex(tokens, k) ==
    [tokens |-> tokens, anchor_positions |-> AnchorPositions(tokens, k),
     anchor_keys |-> DOMAIN AnchorPositions(tokens, k)]

\* f.trigram_positions.keys() & p.anchor_keys
CommonAnchors(f, p) == DOMAIN f.trigram_positions \cap p.anchor_keys

\* The loops of best_match_indexed for one anchor of common_anchors.
AlignAnchor(f, p, anchor, k, gap, best) ==
    AlignFilePositions(f.tokens, p.tokens, f.trigram_positions[anchor],
                       p.anchor_positions[anchor], k, gap, best)

\* `for anchor in common_anchors` iterates a set, in an order the run does
\* not fix: the values best_result can end with, over every order.
RECURSIVE AlignAnchors(_, _, _, _, _, _)
AlignAnchors(f, p, anchors, k, gap, best) ==
    IF anchors = {} THEN {best}
    ELSE UNION {AlignAnchors(f, p, anchors \ {a}, k, gap,
                             AlignAnchor(f, p, a, k, gap, best)) : a \in anchors}

\* The values best_match_indexed(f, p, anchor_size, gap_lookahead) can return.
BestMatchIndexed(f, p, k, gap) ==
    IF f.tokens = <<>> \/ Len(p.tokens) < k THEN {<<>>}
    ELSE IF CommonAnchors(f, p) = {} THEN {<<>>}
    ELSE AlignAnchors(f, p, CommonAnchors(f, p), k, gap, <<>>)

(***************************************************************************)
(* best_fuzzy_substring_match (fuzzy_license_search2.py): the strict       *)
(* one-to-one walk.  Its MatchResult has the four span fields only; the    *)
(* tokens are lower-case already, so word.lower() leaves them as they are. *)
(***************************************************************************)
StrictMatchResult(substring, percent, start, end) ==
    [matched_substring |-> substring, match_percent |-> percent,
     start_index |-> start, end_index |-> end]

\* Lines 105-109: the anchor counts as anchor_size matches.
StrictInit(i, j0, k) ==
    [fi |-> i + k, pj |-> j0 + k, matches |-> k, last_match_file_idx |-> i + k - 1]

\* A variant of the iteration that holds the pattern index on a mismatch.
StrictStepHoldsPattern(ft, pt, w) ==
    IF At(ft, w.fi) = At(pt, w.pj)
    THEN [w EXCEPT !.matches = @ + 1, !.last_match_file_idx = w.fi,
                   !.fi = @ + 1, !.pj = @ + 1]
    ELSE [w EXCEPT !.fi = @ + 1]

\* Lines 114-119: one iteration of the while loop.
StrictStep(ft, pt, w) ==
    IF At(ft, w.fi) = At(pt, w.pj)
    THEN [w EXCEPT !.matches = @ + 1, !.last_match_file_idx = w.fi,
                   !.fi = @ + 1, !.pj = @ + 1]
    ELSE [w EXCEPT !.fi = @ + 1, !.pj = @ + 1]

\* Line 113: while fi < n_file and pj < n_pattern.
RECURSIVE StrictWalkFrom(_, _, _)
StrictWalkFrom(ft, pt, w) ==
    IF w.fi < Len(ft) /\ w.pj < Len(pt)
    THEN StrictWalkFrom(ft, pt, StrictStep(ft, pt, w))
    ELSE w

\* Lines 105-127: the recording started at (i, j0).
StrictAlignPair(ft, pt, i, j0, k) ==
    LET w == StrictWalkFrom(ft, pt, StrictInit(i, j0, k))
    IN StrictMatchResult(TextSlice(ft, i, w.last_match_file_idx),
                         Percent(w.matches, Len(pt)),
                         TokenStart(ft, i), TokenEnd(ft, w.last_match_file_idx))

\* Lines 103-135: for j0 in pattern_positions.
RECURSIVE StrictPatternPositions(_, _, _, _, _, _)
StrictPatternPositions(ft, pt, i, js, k, best) ==
    IF js = <<>> THEN best
    ELSE StrictPatternPositions(ft, pt, i, Tail(js), k,
                                KeepBest(best, StrictAlignPair(ft, pt, i, Head(js), k)))

\* Lines 96-135: for i in range(n_file - anchor_size + 1), from i on; a file
\* anchor that is not in the pattern is skipped.
RECURSIVE StrictFileScan(_, _, _, _, _, _)
StrictFileScan(ft, pt, i, k, anchor_to_pattern_positions, best) ==
    IF i > Len(ft) - k THEN best
    ELSE LET anchor == AnchorAt(ft, i, k)
             pattern_positions ==
                 IF anchor \in DOMAIN anchor_to_pattern_positions
                 THEN anchor_to_pattern_positions[anchor] ELSE <<>>
         IN StrictFileScan(ft, pt, i + 1, k, anchor_to_pattern_positions,
                           StrictPatternPositions(ft, pt, i, pattern_positions, k, best))

\* best_fuzzy_substring_match(file_content, pattern_content, anchor_size).
BestFuzzySubstringMatch(ft, pt, k) ==
    IF ft = <<>> \/ Len(pt) < k THEN <<>>
    ELSE StrictFileScan(ft, pt, 0, k, AnchorPositions(pt, k), <<>>)

(***************************************************************************)
(* _VERSION_RE on a normalized text: "version" <num>, "v" / "v." <num>     *)
(* (the number may follow the v directly) and "license" <num>.  A match    *)
(* starts at a cue token; its group is the number.                         *)
(***************************************************************************)
CueWords == {"version", "v", "license"}
NumberTokens == {"2", "3", "2.0", "3.0"}
CompactCues == {"v2", "v3"}

\* The group of the match that starts at token i, or PyNone; and the index
\* of the first token after that match.
VersionMatchAt(tokens, i) ==
    IF At(tokens, i) \in CueWords /\ i + 1 < Len(tokens)
       /\ At(tokens, i + 1) \in NumberTokens
    THEN PyStr(At(tokens, i + 1))
    ELSE IF At(tokens, i) \in CompactCues
    THEN PyStr(SubSeq(At(tokens, i), 2, Len(At(tokens, i))))
    ELSE PyNone

VersionMatchEnd(tokens, i) == IF At(tokens, i) \in CueWords THEN i + 2 ELSE i + 1

\* _VERSION_RE.finditer(text): the groups of the successive matches.
RECURSIVE VersionMatchesFrom(_, _)
VersionMatchesFrom(tokens, i) ==
    IF i >= Len(tokens) THEN <<>>
    ELSE LET g == VersionMatchAt(tokens, i)
         IN IF g = PyNone
            THEN VersionMatchesFrom(tokens, i + 1)
            ELSE g.items \o VersionMatchesFrom(tokens, VersionMatchEnd(tokens, i))

\* _extract_version: the first match's group, or None.
ExtractVersion(tokens) ==
    LET groups == VersionMatchesFrom(tokens, 0)
    IN IF groups = <<>> THEN PyNone ELSE PyStr(Head(groups))

\* A variant of the loop that appends every group.
RECURSIVE DistinctKeepsAll(_, _)
DistinctKeepsAll(groups, versions) ==
    IF groups = <<>> THEN versions
    ELSE DistinctKeepsAll(Tail(groups), Append(versions, Head(groups)))

\* if g not in versions: versions.append(g)
RECURSIVE Distinct(_, _)
Distinct(groups, versions) ==
    IF groups = <<>> THEN versions
    ELSE Distinct(Tail(groups),
                  IF \E n \in 1..Len(versions) : versions[n] = Head(groups)
                  THEN versions ELSE Append(versions, Head(groups)))

\* _extract_versions: the distinct groups in first-seen order; `versions or None`.
ExtractVersions(tokens) ==
    IF tokens = <<>> THEN PyNone
    ELSE LET versions == Distinct(VersionMatchesFrom(tokens, 0), <<>>)
         IN IF versions = <<>> THEN PyNone ELSE PyList(versions)

(***************************************************************************)
(* _lcs_dp_with_indices: the DP table row by row, then the backtrack.      *)
(* A row is the sequence of its entries dp[i][0..n].                       *)
(***************************************************************************)
RECURSIVE LcsRowFrom(_, _, _, _, _)
LcsRowFrom(prev_row, ai, b_seq, j, row) ==
    IF j > Len(b_seq) THEN row
    ELSE LET above == At(prev_row, j)
             left == At(row, j - 1)
             entry == IF ai = At(b_seq, j - 1)
                      THEN At(prev_row, j - 1) + 1
                      ELSE IF above >= left THEN above ELSE left
         IN LcsRowFrom(prev_row, ai, b_seq, j + 1, Append(row, entry))

RECURSIVE LcsRowsFrom(_, _, _, _)
LcsRowsFrom(a_seq, b_seq, i, dp) ==
    IF i > Len(a_seq) THEN dp
    ELSE LcsRowsFrom(a_seq, b_seq, i + 1,
                     Append(dp, LcsRowFrom(At(dp, i - 1), At(a_seq, i - 1),
                                           b_seq, 1, <<0>>)))

LcsTable(a_seq, b_seq) ==
    LcsRowsFrom(a_seq, b_seq, 1, <<[j \in 1..(Len(b_seq) + 1) |-> 0]>>)

\* A variant of the backtrack in which a tie moves the file index.
RECURSIVE LcsBacktrackTiesToFile(_, _, _, _, _, _)
LcsBacktrackTiesToFile(a_seq, b_seq, dp, i, j, pairs) ==
    IF ~(i > 0 /\ j > 0) THEN pairs
    ELSE IF At(a_seq, i - 1) = At(b_seq, j - 1)
    THEN LcsBacktrackTiesToFile(a_seq, b_seq, dp, i - 1, j - 1,
                                <<<<i - 1, j - 1>>>> \o pairs)
    ELSE IF At(At(dp, i - 1), j) > At(At(dp, i), j - 1)
    THEN LcsBacktrackTiesToFile(a_seq, b_seq, dp, i - 1, j, pairs)
    ELSE LcsBacktrackTiesToFile(a_seq, b_seq, dp, i, j - 1, pairs)

\* The backtrack; pairs are collected backwards and reversed at the end.
RECURSIVE LcsBacktrack(_, _, _, _, _, _)
LcsBacktrack(a_seq, b_seq, dp, i, j, pairs) ==
    IF ~(i > 0 /\ j > 0) THEN pairs
    ELSE IF At(a_seq, i - 1) = At(b_seq, j - 1)
    THEN LcsBacktrack(a_seq, b_seq, dp, i - 1, j - 1, <<<<i - 1, j - 1>>>> \o pairs)
    ELSE IF At(At(dp, i - 1), j) >= At(At(dp, i), j - 1)
    THEN LcsBacktrack(a_seq, b_seq, dp, i - 1, j, pairs)
    ELSE LcsBacktrack(a_seq, b_seq, dp, i, j - 1, pairs)

\* Returns (dp[m][n], pairs).
LcsDpWithIndices(a_seq, b_seq) ==
    LET dp == LcsTable(a_seq, b_seq)
        m == Len(a_seq)
        n == Len(b_seq)
    IN <<At(At(dp, m), n), LcsBacktrack(a_seq, b_seq, dp, m, n, <<>>)>>

(***************************************************************************)
(* _select_longest_contiguous_run.                                         *)
(***************************************************************************)
\* A variant of the scan in which a run as long as the best so far replaces
\* it.
RECURSIVE RunScanTiesToLatest(_, _, _)
RunScanTiesToLatest(pairs, i, s) ==
    IF i >= Len(pairs)
    THEN LET run_len == Len(pairs) - s.start
         IN IF run_len >= s.best_len
            THEN [s EXCEPT !.best_len = run_len, !.best_start = s.start,
                           !.best_end = Len(pairs) - 1]
            ELSE s
    ELSE LET a == At(pairs, i - 1)
             b == At(pairs, i)
         IN IF ~(b[1] = a[1] + 1 /\ b[2] = a[2] + 1)
            THEN LET run_len == i - s.start
                     t == IF run_len >= s.best_len
                          THEN [s EXCEPT !.best_len = run_len, !.best_start = s.start,
                                         !.best_end = i - 1]
                          ELSE s
                 IN RunScanTiesToLatest(pairs, i + 1, [t EXCEPT !.start = i])
            ELSE RunScanTiesToLatest(pairs, i + 1, s)

RECURSIVE RunScan(_, _, _)
RunScan(pairs, i, s) ==
    IF i >= Len(pairs)
    THEN LET run_len == Len(pairs) - s.start
         IN IF run_len > s.best_len
            THEN [s EXCEPT !.best_len = run_len, !.best_start = s.start,
                           !.best_end = Len(pairs) - 1]
            ELSE s
    ELSE LET a == At(pairs, i - 1)
             b == At(pairs, i)
         IN IF ~(b[1] = a[1] + 1 /\ b[2] = a[2] + 1)
            THEN LET run_len == i - s.start
                     t == IF run_len > s.best_len
                          THEN [s EXCEPT !.best_len = run_len, !.best_start = s.start,
                                         !.best_end = i - 1]
                          ELSE s
                 IN RunScan(pairs, i + 1, [t EXCEPT !.start = i])
            ELSE RunScan(pairs, i + 1, s)

SelectLongestContiguousRun(pairs) ==
    IF pairs = <<>> THEN <<>>
    ELSE LET s == RunScan(pairs, 1, [best_start |-> 0, best_end |-> 0,
                                     best_len |-> 1, start |-> 0])
         IN SubSeq(pairs, s.best_start + 1, s.best_end + 1)

(***************************************************************************)
(* The LCS matchers: fuzzy_match_in_file (no pruning) and                  *)
(* fuzzy_match_prepared (multiset upper bound first).                      *)
(***************************************************************************)
\* sorted({j for (_, j) in pairs})
RECURSIVE SortedSeq(_)
SortedSeq(S) ==
    IF S = {} THEN <<>>
    ELSE LET lo == CHOOSE x \in S : \A y \in S : x <= y
         IN <<lo>> \o SortedSeq(S \ {lo})

FileIndicesOf(pairs) == [n \in 1..Len(pairs) |-> pairs[n][2]]

\* " ".join(text_tokens[i].raw for i in matched_text_indices)
JoinTokens(tokens, indices) == [n \in 1..Len(indices) |-> At(tokens, indices[n])]

\* A variant of the strong branch that leaves out the last aligned file
\* token.
StrongIndicesButLast(pairs) ==
    LET all == SortedSeq({pairs[n][2] : n \in 1..Len(pairs)})
    IN SubSeq(all, 1, Len(all) - 1)

\* matched_text_indices of the strong branch: sorted({j for (_, j) in pairs})
StrongMatchedTextIndices(pairs) ==
    SortedSeq({pairs[n][2] : n \in 1..Len(pairs)})

\* matched_text_indices of the weak/medium branch:
\* [j for (_, j) in _select_longest_contiguous_run(pairs)]
WeakMatchedTextIndices(pairs) ==
    FileIndicesOf(SelectLongestContiguousRun(pairs))

\* A variant of the test that takes the strong branch only above the
\* threshold.
IsStrongAbove(lcs_percent) == PctGT(lcs_percent, PctOf(STRONG_MATCH_THRESHOLD))

\* if lcs_percent >= STRONG_MATCH_THRESHOLD
IsStrong(lcs_percent) == PctGE(lcs_percent, PctOf(STRONG_MATCH_THRESHOLD))

\* Steps 2 and 3 of both matchers: strong or weak/medium, then the result.
\* expected and found are the versions the caller attaches.
ScoreLcs(pattern, text, lcs, expected, found) ==
    LET lcs_len == lcs[1]
        pairs == lcs[2]
        m == Len(pattern)
        lcs_percent == Percent(lcs_len, m)
        strong == IsStrong(lcs_percent)
        contiguous_pairs == SelectLongestContiguousRun(pairs)
        match_percent == IF strong THEN lcs_percent
                         ELSE Percent(Len(contiguous_pairs), m)
        matched_text_indices ==
            IF strong
            THEN StrongMatchedTextIndices(pairs)
            ELSE WeakMatchedTextIndices(pairs)
        first_idx == Head(matched_text_indices)
        last_idx == matched_text_indices[Len(matched_text_indices)]
    IN IF lcs_len = 0 \/ pairs = <<>> THEN <<>>
       ELSE IF matched_text_indices = <<>> THEN <<>>
       ELSE <<[MatchResult(JoinTokens(text, matched_text_indices), match_percent,
                           TokenStart(text, first_idx), TokenEnd(text, last_idx))
               EXCEPT !.expected_version = expected, !.found_version = found]>>

\* fuzzy_match_in_file(pattern, file_text)
FuzzyMatchInFile(pattern, file_text) ==
    IF pattern = <<>> \/ file_text = <<>> THEN <<>>
    ELSE ScoreLcs(pattern, file_text, LcsDpWithIndices(pattern, file_text),
                  ExtractVersion(pattern), ExtractVersion(file_text))

\* Counter(norms)[w]
Freq(tokens, w) == Cardinality({n \in 1..Len(tokens) : tokens[n] = w})

RECURSIVE SumOver(_, _, _)
SumOver(S, pattern, text) ==
    IF S = {} THEN 0
    ELSE LET w == CHOOSE x \in S : TRUE
             c_pat == Freq(pattern, w)
             c_txt == Freq(text, w)
         IN (IF c_txt < c_pat THEN c_txt ELSE c_pat) + SumOver(S \ {w}, pattern, text)

\* A variant of the overlap that counts every shared word once.
OverlapOfDistinct(pattern, text) ==
    Cardinality({pattern[n] : n \in 1..Len(pattern)} \cap {text[n] : n \in 1..Len(text)})

\* The multiset intersection size of the two token lists.
Overlap(pattern, text) ==
    SumOver({pattern[n] : n \in 1..Len(pattern)}, pattern, text)

\* A variant of the upper-bound test that also prunes a bound equal to
\* MIN_KEEP_PERCENT.
PreparedRunsDpAbove(pattern, text) ==
    /\ pattern # <<>> /\ text # <<>>
    /\ PctGT(Percent(Overlap(pattern, text), Len(pattern)), PctOf(MIN_KEEP_PERCENT))

\* Whether fuzzy_match_prepared gets past the upper-bound test to the DP.
PreparedRunsDp(pattern, text) ==
    /\ pattern # <<>> /\ text # <<>>
    /\ ~PctGT(PctOf(MIN_KEEP_PERCENT), Percent(Overlap(pattern, text), Len(pattern)))

\* fuzzy_match_prepared(prepare_text(pattern), prepare_text(text))
FuzzyMatchPrepared(pattern, text) ==
    IF ~PreparedRunsDp(pattern, text) THEN <<>>
    ELSE ScoreLcs(pattern, text, LcsDpWithIndices(pattern, text),
                  ExtractVersion(pattern), ExtractVersion(text))

(***************************************************************************)
(* The parts of the state a specification does not use stay as they are    *)
(* set here.                                                               *)
(***************************************************************************)
MatchIdle ==
    /\ call = "none" /\ file_tokens = <<>> /\ pattern_tokens = <<>>
    /\ anchor_size = DEFAULT_ANCHOR_SIZE /\ gap_lookahead = DEFAULT_GAP_LOOKAHEAD
    /\ mpc = "idle" /\ remaining = {} /\ best_result = <<>>
    /\ walks = 0 /\ dp_runs = 0

EvalLocalsUnset ==
    /\ cand_i = 0
    /\ best_match_percent = PctOf(0)
    /\ best_exact_match_percent = PctOf(0)
    /\ best_fuzzy_match = <<>>
    /\ prior_match_version_was_exact = FALSE

NormIdle ==
    /\ norm_pc = "idle" /\ raw_value = <<>> /\ normalized = <<>> /\ renormalized = <<>>

VerIdle == ver_pc = "idle" /\ ver_text = <<>> /\ ver_result = PyNone

RunIdle ==
    /\ sweep = "none" /\ file_content = <<>> /\ licenses = <<>>
    /\ file_indexes = <<>> /\ pattern_indexes = <<>>
    /\ pc = "idle" /\ f_i = 0 /\ p_i = 0
    /\ fuzzy_license_matches = <<>> /\ license_names = <<>>
    /\ fuzzy_license_match = <<>> /\ match_writes = <<>>
    /\ EvalLocalsUnset

(***************************************************************************)
(* One call of a matcher on one (file, pattern) pair.                      *)
(***************************************************************************)
MatchInit ==
    /\ file_tokens \in SeqsUpTo(MatchAlphabet, MaxFileLen)
    /\ pattern_tokens \in SeqsUpTo(MatchAlphabet, MaxPatLen)
    /\ call \in {"indexed", "strict", "in_file", "prepared"}
    /\ IF call = "indexed"
       THEN anchor_size \in AnchorSizes /\ gap_lookahead \in 0..MaxGap
       ELSE IF call = "strict"
       THEN anchor_size \in AnchorSizes /\ gap_lookahead = 0
       ELSE anchor_size = DEFAULT_ANCHOR_SIZE /\ gap_lookahead = DEFAULT_GAP_LOOKAHEAD
    /\ mpc = "start"
    /\ remaining = {}
    /\ best_result = <<>>
    /\ walks = 0
    /\ dp_runs = 0
    /\ RunIdle
    /\ NormIdle
    /\ VerIdle

\* best_match_indexed up to the loop: the two early returns.
IndexedStart ==
    /\ call = "indexed" /\ mpc = "start"
    /\ IF file_tokens = <<>> \/ Len(pattern_tokens) < anchor_size
       THEN mpc' = "done" /\ remaining' = {}
       ELSE LET common_anchors == CommonAnchors(FileIndex(file_tokens, anchor_size),
                                                PatternIndex(pattern_tokens, anchor_size))
            IN IF common_anchors = {}
               THEN mpc' = "done" /\ remaining' = {}
               ELSE mpc' = "loop" /\ remaining' = common_anchors
    /\ UNCHANGED <<call, file_tokens, pattern_tokens, anchor_size, gap_lookahead,
                   best_result, walks, dp_runs>>
    /\ UNCHANGED <<input_vars, run_vars, record_vars, eval_vars, norm_vars, ver_vars>>

\* One iteration of `for anchor in common_anchors` (a set: any order).
IndexedAnchor ==
    /\ call = "indexed" /\ mpc = "loop"
    /\ \E anchor \in remaining :
          LET f == FileIndex(file_tokens, anchor_size)
              p == PatternIndex(pattern_tokens, anchor_size)
          IN /\ best_result' = AlignAnchor(f, p, anchor, anchor_size, gap_lookahead,
                                           best_result)
             /\ walks' = walks + Len(f.trigram_positions[anchor])
                                 * Len(p.anchor_positions[anchor])
             /\ remaining' = remaining \ {anchor}
    /\ UNCHANGED <<call, file_tokens, pattern_tokens, anchor_size, gap_lookahead,
                   mpc, dp_runs>>
    /\ UNCHANGED <<input_vars, run_vars, record_vars, eval_vars, norm_vars, ver_vars>>

\* return best_result
IndexedReturn ==
    /\ call = "indexed" /\ mpc = "loop" /\ remaining = {}
    /\ mpc' = "done"
    /\ UNCHANGED <<call, file_tokens, pattern_tokens, anchor_size, gap_lookahead,
                   remaining, best_result, walks, dp_runs>>
    /\ UNCHANGED <<input_vars, run_vars, record_vars, eval_vars, norm_vars, ver_vars>>

\* best_fuzzy_substring_match, which has no gap_lookahead.
CallBestFuzzySubstringMatch ==
    /\ call = "strict" /\ mpc = "start"
    /\ best_result' = BestFuzzySubstringMatch(file_tokens, pattern_tokens, anchor_size)
    /\ mpc' = "done"
    /\ UNCHANGED <<call, file_tokens, pattern_tokens, anchor_size, gap_lookahead,
                   remaining, walks, dp_runs>>
    /\ UNCHANGED <<input_vars, run_vars, record_vars, eval_vars, norm_vars, ver_vars>>

CallFuzzyMatchInFile ==
    /\ call = "in_file" /\ mpc = "start"
    /\ best_result' = FuzzyMatchInFile(pattern_tokens, file_tokens)
    /\ dp_runs' = IF pattern_tokens = <<>> \/ file_tokens = <<>> THEN 0 ELSE 1
    /\ mpc' = "done"
    /\ UNCHANGED <<call, file_tokens, pattern_tokens, anchor_size, gap_lookahead,
                   remaining, walks>>
    /\ UNCHANGED <<input_vars, run_vars, record_vars, eval_vars, norm_vars, ver_vars>>

CallFuzzyMatchPrepared ==
    /\ call = "prepared" /\ mpc = "start"
    /\ best_result' = FuzzyMatchPrepared(pattern_tokens, file_tokens)
    /\ dp_runs' = IF PreparedRunsDp(pattern_tokens, file_tokens) THEN 1 ELSE 0
    /\ mpc' = "done"
    /\ UNCHANGED <<call, file_tokens, pattern_tokens, anchor_size, gap_lookahead,
                   remaining, walks>>
    /\ UNCHANGED <<input_vars, run_vars, record_vars, eval_vars, norm_vars, ver_vars>>

MatchNext ==
    \/ IndexedStart
    \/ IndexedAnchor
    \/ IndexedReturn
    \/ CallBestFuzzySubstringMatch
    \/ CallFuzzyMatchInFile
    \/ CallFuzzyMatchPrepared

SpecMatch == MatchInit /\ [][MatchNext]_vars

(***************************************************************************)
(* utils: the license name of a path, the version in a license name, and   *)
(* normalize_number_string.  A str is a TLA+ string; its characters are    *)
(* read with SubSeq.                                                       *)
(***************************************************************************)
Digits == {"0", "1", "2", "3", "4", "5", "6", "7", "8", "9"}
CharAt(s, n) == SubSeq(s, n, n)
IsDigitAt(s, n) == n >= 1 /\ n <= Len(s) /\ CharAt(s, n) \in Digits

\* The last position of s holding a character of C, or 0.
LastIndexIn(s, C) ==
    LET hits == {n \in 1..Len(s) : CharAt(s, n) \in C}
    IN IF hits = {} THEN 0 ELSE CHOOSE n \in hits : \A h \in hits : h <= n

\* os.path.splitext(filename)[0]: cut at the last dot, unless only dots
\* precede it.
SplitExtRoot(filename) ==
    LET dot == LastIndexIn(filename, {"."})
    IN IF dot = 0 \/ (\A n \in 1..(dot - 1) : CharAt(filename, n) = ".")
       THEN filename
       ELSE SubSeq(filename, 1, dot - 1)

\* get_file_name_from_path_without_extension
GetFileNameFromPathWithoutExtension(path) ==
    LET sep == LastIndexIn(path, {"/", "\\"})
    IN SplitExtRoot(SubSeq(path, sep + 1, Len(path)))

\* The end of the run of digits that starts at position n.
RECURSIVE DigitRunEnd(_, _)
DigitRunEnd(s, n) == IF IsDigitAt(s, n + 1) THEN DigitRunEnd(s, n + 1) ELSE n

\* extract_version_from_name: re.search(r'(\d+(?:\.\d+)?)', name)
ExtractVersionFromName(name) ==
    LET starts == {n \in 1..Len(name) : IsDigitAt(name, n)}
        first == CHOOSE n \in starts : \A h \in starts : n <= h
        int_end == DigitRunEnd(name, first)
        last == IF int_end + 1 <= Len(name) /\ CharAt(name, int_end + 1) = "."
                   /\ IsDigitAt(name, int_end + 2)
                THEN DigitRunEnd(name, int_end + 2)
                ELSE int_end
    IN IF starts = {} THEN PyNone ELSE PyStr(SubSeq(name, first, last))

\* What a call raises instead of returning.
AttributeError == [kind |-> "raise", items |-> <<"AttributeError">>]

\* str.strip(): leading and trailing whitespace removed.
Whitespace == {" ", "\t", "\n", "\r"}

RECURSIVE Strip(_)
Strip(str) ==
    IF str = "" THEN str
    ELSE IF CharAt(str, 1) \in Whitespace THEN Strip(SubSeq(str, 2, Len(str)))
    ELSE IF CharAt(str, Len(str)) \in Whitespace THEN Strip(SubSeq(str, 1, Len(str) - 1))
    ELSE str

\* str(int(digits)) for a run of digits: leading zeros dropped.
RECURSIVE DropLeadingZeros(_)
DropLeadingZeros(digits) ==
    IF Len(digits) > 1 /\ CharAt(digits, 1) = "0"
    THEN DropLeadingZeros(SubSeq(digits, 2, Len(digits)))
    ELSE digits

\* normalize_number_string(value): None for None; for a str, "<int>.0" when
\* the stripped str matches [+-]?\d+ and the stripped str otherwise; a list
\* has no strip().
NormalizeNumberString(value) ==
    IF value.kind = "none" THEN PyNone
    ELSE IF value.kind = "str"
    THEN LET str == Strip(value.items[1])
             signed == str # "" /\ CharAt(str, 1) \in {"+", "-"}
             digits == IF signed THEN SubSeq(str, 2, Len(str)) ELSE str
             magnitude == DropLeadingZeros(digits)
         IN IF digits # "" /\ \A n \in 1..Len(digits) : IsDigitAt(digits, n)
            THEN PyStr((IF signed /\ CharAt(str, 1) = "-" /\ magnitude # "0"
                        THEN "-" ELSE "") \o magnitude \o ".0")
            ELSE PyStr(str)
    ELSE AttributeError

(***************************************************************************)
(* The batch run.  main(): build the file indexes, build the pattern       *)
(* indexes, fuzzy_match_assessment_files_for_licenses, then                *)
(* determine_best_fuzzy_match_from_file_data.  The sweeps of the two       *)
(* prototypes (search_all_assessment_files_for_fuzzy_license_matches) run  *)
(* over the same file records with the LCS matchers.                       *)
(***************************************************************************)
NumFiles == 2
NumPatterns == 2

\* Normalized contents of assessed files.
FilePool ==
    {<<>>,
     <<"a", "b", "c">>,
     <<"a", "b", "c", "version", "2">>,
     <<"a", "version", "2">>,
     <<"a", "b", "c", "d">>,
     <<"d", "c", "d", "b">>}

\* Reference licenses: path of the .txt file and normalized text.
LicensePool ==
    {[path |-> "headers/MIT.txt", text |-> <<"a", "b", "c">>],
     [path |-> "headers/GPL-2.0-or-later.txt", text |-> <<"a", "version", "2">>],
     [path |-> "manual/ECL-2.txt", text |-> <<"a", "b", "c", "d", "e", "f">>],
     [path |-> "manual/X11.txt", text |-> <<"c", "d">>]}

Files == 1..NumFiles
Patterns == 1..NumPatterns

EmptyLists == [f \in Files |-> <<>>]

RunInit ==
    /\ sweep \in {"indexed", "in_file", "prepared"}
    /\ file_content \in [Files -> FilePool]
    /\ licenses \in {l \in [Patterns -> LicensePool] :
                          \A m, n \in Patterns : l[m].path = l[n].path => m = n}
    /\ file_indexes = <<>>
    /\ pattern_indexes = <<>>
    /\ pc = IF sweep = "indexed" THEN "index_files" ELSE "sweep"
    /\ f_i = 1
    /\ p_i = 1
    /\ fuzzy_license_matches = EmptyLists
    /\ license_names = EmptyLists
    /\ fuzzy_license_match = EmptyLists
    /\ match_writes = [f \in Files |-> 0]
    /\ EvalLocalsUnset
    /\ MatchIdle
    /\ NormIdle
    /\ VerIdle

\* Config.file_indexes = build_file_indexes(..., anchor_size=3)
BuildFileIndexes ==
    /\ pc = "index_files"
    /\ file_indexes' = [f \in Files |-> FileIndex(file_content[f], DEFAULT_ANCHOR_SIZE)]
    /\ pc' = "index_patterns"
    /\ UNCHANGED <<pattern_indexes, f_i, p_i>>
    /\ UNCHANGED <<match_vars, input_vars, record_vars, eval_vars, norm_vars, ver_vars>>

\* Config.license_header_indexes = build_pattern_indexes_from_dict(...)
BuildPatternIndexes ==
    /\ pc = "index_patterns"
    /\ pattern_indexes' =
           [n \in Patterns |-> PatternIndex(licenses[n].text, DEFAULT_ANCHOR_SIZE)]
    /\ pc' = "sweep"
    /\ UNCHANGED <<file_indexes, f_i, p_i>>
    /\ UNCHANGED <<match_vars, input_vars, record_vars, eval_vars, norm_vars, ver_vars>>

\* A variant of the loop counters that leaves the sweep after the patterns
\* of the first file.
SweepAdvanceAfterFirstFile(after) ==
    IF p_i < NumPatterns
    THEN p_i' = p_i + 1 /\ f_i' = f_i /\ pc' = "sweep"
    ELSE p_i' = 1 /\ f_i' = 1 /\ pc' = after

\* The loop counters after the comparison of (f_i, p_i); `after` is where
\* the run goes when the last comparison is done.
SweepAdvance(after) ==
    IF p_i < NumPatterns
    THEN p_i' = p_i + 1 /\ f_i' = f_i /\ pc' = "sweep"
    ELSE IF f_i < NumFiles
    THEN p_i' = 1 /\ f_i' = f_i + 1 /\ pc' = "sweep"
    ELSE p_i' = 1 /\ f_i' = 1 /\ pc' = after

AppendMatch(entry) ==
    fuzzy_license_matches' = [fuzzy_license_matches EXCEPT ![f_i] = Append(@, entry)]

\* match_percent > 50.0
AboveKeepLoose(result) == PctGE(result.match_percent, PctOf(MIN_KEEP_PERCENT))

AboveKeep(result) == PctGT(result.match_percent, PctOf(MIN_KEEP_PERCENT))

\* The found versions the indexed sweep attaches:
\* utils.normalize_number_string(_extract_versions(matched_substring)).
FoundVersionOf(result) == NormalizeNumberString(ExtractVersions(result.matched_substring))

\* One iteration of the inner loop of
\* fuzzy_match_assessment_files_for_licenses.
CompareIndexed ==
    /\ sweep = "indexed" /\ pc = "sweep"
    /\ \E returned \in BestMatchIndexed(file_indexes[f_i], pattern_indexes[p_i],
                                        DEFAULT_ANCHOR_SIZE, DEFAULT_GAP_LOOKAHEAD) :
          IF returned # <<>> /\ AboveKeep(returned[1])
          THEN LET license_name ==
                       GetFileNameFromPathWithoutExtension(licenses[p_i].path)
                   found_version == FoundVersionOf(returned[1])
               IN IF found_version.kind = "raise"
                  THEN /\ pc' = "raised"
                       /\ UNCHANGED <<f_i, p_i, fuzzy_license_matches>>
                  ELSE /\ AppendMatch([returned[1] EXCEPT
                                          !.license_name = PyStr(license_name),
                                          !.expected_version =
                                              ExtractVersionFromName(license_name),
                                          !.found_version = found_version])
                       /\ SweepAdvance("eval_file")
          ELSE /\ SweepAdvance("eval_file")
               /\ UNCHANGED fuzzy_license_matches
    /\ UNCHANGED <<file_indexes, pattern_indexes>>
    /\ UNCHANGED <<license_names, fuzzy_license_match, match_writes>>
    /\ UNCHANGED <<match_vars, input_vars, eval_vars, norm_vars, ver_vars>>

\* The entry a prototype sweep appends: {"License_name": ...,
\* "Fuzzy_license_match": result}, kept as the result with its name.
LcsEntry(result) ==
    [result EXCEPT !.license_name =
                       PyStr(GetFileNameFromPathWithoutExtension(licenses[p_i].path))]

CompareLcs(returned) ==
    /\ IF returned # <<>> /\ AboveKeep(returned[1])
       THEN AppendMatch(LcsEntry(returned[1]))
       ELSE UNCHANGED fuzzy_license_matches
    /\ SweepAdvance("done")
    /\ UNCHANGED <<file_indexes, pattern_indexes>>
    /\ UNCHANGED <<license_names, fuzzy_license_match, match_writes>>
    /\ UNCHANGED <<match_vars, input_vars, eval_vars, norm_vars, ver_vars>>

\* One iteration of the inner loop of the sweep of
\* fuzzy_match_prototype_with_versioning.
CompareInFile ==
    /\ sweep = "in_file" /\ pc = "sweep"
    /\ CompareLcs(IF licenses[p_i].text # <<>> /\ file_content[f_i] # <<>>
                  THEN FuzzyMatchInFile(licenses[p_i].text, file_content[f_i])
                  ELSE <<>>)

\* One iteration of the inner loop of the sweep of
\* fuzzy_match_prototype_optimized.
ComparePrepared ==
    /\ sweep = "prepared" /\ pc = "sweep"
    /\ CompareLcs(IF licenses[p_i].text # <<>> /\ file_content[f_i] # <<>>
                  THEN FuzzyMatchPrepared(licenses[p_i].text, file_content[f_i])
                  ELSE <<>>)

(***************************************************************************)
(* determine_best_fuzzy_match_from_file_data.  The locals of one file's    *)
(* pass are kept in a record while a candidate is examined.                *)
(***************************************************************************)
Locals ==
    [best_match_percent |-> best_match_percent,
     best_exact_match_percent |-> best_exact_match_percent,
     best_fuzzy_match |-> best_fuzzy_match,
     prior_match_version_was_exact |-> prior_match_version_was_exact]

\* A variant of the locals that starts best_match_percent at 100.
FreshLocalsFull ==
    [best_match_percent |-> PctOf(100),
     best_exact_match_percent |-> PctOf(0),
     best_fuzzy_match |-> <<>>,
     prior_match_version_was_exact |-> FALSE]

\* The locals as lines 8-11 set them.
FreshLocals ==
    [best_match_percent |-> PctOf(0),
     best_exact_match_percent |-> PctOf(0),
     best_fuzzy_match |-> <<>>,
     prior_match_version_was_exact |-> FALSE]

\* Truth value of a str / list / None.
Truthy(value) ==
    /\ value.kind # "none"
    /\ value.items # <<>>
    /\ (value.kind = "str" => value.items[1] # "")

\* The elements a for loop over a list or a str visits.
Elements(value) ==
    IF value.kind = "str"
    THEN [n \in 1..Len(value.items[1]) |-> CharAt(value.items[1], n)]
    ELSE value.items

\* A variant of the comparison that accepts any found version when a version
\* is expected.
VersionEqualsAny(expected_version, found_version) ==
    expected_version.kind = "str"

\* expected_version == found_version
VersionEquals(expected_version, found_version) ==
    expected_version.kind = "str" /\ expected_version.items[1] = found_version

\* A variant of the exact branch that also takes a candidate whose percent
\* equals best_exact_match_percent.
ExactUpdateLoose(loc, candidate) ==
    IF PctGE(candidate.match_percent, loc.best_exact_match_percent)
    THEN [best_match_percent |-> candidate.match_percent,
          best_exact_match_percent |-> candidate.match_percent,
          best_fuzzy_match |-> <<candidate>>,
          prior_match_version_was_exact |-> TRUE]
    ELSE loc

\* Lines 18-22 and 28-32: the candidate is taken when its percent beats
\* best_exact_match_percent.
ExactUpdate(loc, candidate) ==
    IF PctGT(candidate.match_percent, loc.best_exact_match_percent)
    THEN [best_match_percent |-> candidate.match_percent,
          best_exact_match_percent |-> candidate.match_percent,
          best_fuzzy_match |-> <<candidate>>,
          prior_match_version_was_exact |-> TRUE]
    ELSE loc

\* A variant of the percent-only branch that forgets the guard on
\* prior_match_version_was_exact.
PercentUpdateUnguarded(loc, candidate) ==
    IF PctGT(candidate.match_percent, loc.best_match_percent)
    THEN [loc EXCEPT !.best_match_percent = candidate.match_percent,
                     !.best_fuzzy_match = <<candidate>>]
    ELSE loc

\* Lines 23-25 and 33-35.
PercentUpdate(loc, candidate) ==
    IF ~loc.prior_match_version_was_exact
       /\ PctGT(candidate.match_percent, loc.best_match_percent)
    THEN [loc EXCEPT !.best_match_percent = candidate.match_percent,
                     !.best_fuzzy_match = <<candidate>>]
    ELSE loc

\* Lines 16-25: the loop over the found versions, from the n-th on.
RECURSIVE VersionsLoop(_, _, _, _)
VersionsLoop(loc, candidate, found_versions, n) ==
    IF n > Len(found_versions) THEN loc
    ELSE VersionsLoop(IF VersionEquals(candidate.expected_version, found_versions[n])
                      THEN ExactUpdate(loc, candidate)
                      ELSE PercentUpdate(loc, candidate),
                      candidate, found_versions, n + 1)

\* A variant of the iteration that compares the first found version only, as
\* the earlier single-version evaluator did.
ExamineFirstVersionOnly(loc, candidate) ==
    IF Truthy(candidate.found_version)
    THEN VersionsLoop(loc, candidate,
                      SubSeq(Elements(candidate.found_version), 1, 1), 1)
    ELSE IF candidate.expected_version.kind = "none"
    THEN ExactUpdate(loc, candidate)
    ELSE PercentUpdate(loc, candidate)

\* Lines 13-35: one iteration of the loop over the candidates.
ExamineCandidate(loc, candidate) ==
    IF Truthy(candidate.found_version)
    THEN VersionsLoop(loc, candidate, Elements(candidate.found_version), 1)
    ELSE IF candidate.expected_version.kind = "none"
    THEN ExactUpdate(loc, candidate)
    ELSE PercentUpdate(loc, candidate)

SetLocals(loc) ==
    /\ best_match_percent' = loc.best_match_percent
    /\ best_exact_match_percent' = loc.best_exact_match_percent
    /\ best_fuzzy_match' = loc.best_fuzzy_match
    /\ prior_match_version_was_exact' = loc.prior_match_version_was_exact

\* The outer loop moves on to the next file record.
NextFile ==
    IF f_i < NumFiles
    THEN f_i' = f_i + 1 /\ pc' = "eval_file"
    ELSE f_i' = f_i /\ pc' = "done"

\* A variant of line 7 that takes every record.
HasCandidatesAlways(matches) == TRUE

\* Line 7: `if file_data.fuzzy_license_matches:`
HasCandidates(matches) == matches # <<>>

\* Line 7 false: the record has no candidates.
EvalSkipFile ==
    /\ pc = "eval_file"
    /\ ~HasCandidates(fuzzy_license_matches[f_i])
    /\ NextFile
    /\ UNCHANGED <<file_indexes, pattern_indexes, p_i>>
    /\ UNCHANGED <<match_vars, input_vars, record_vars, eval_vars, norm_vars, ver_vars>>

\* Lines 7-11: the locals are reset for a record with candidates.
EvalEnterFile ==
    /\ pc = "eval_file"
    /\ HasCandidates(fuzzy_license_matches[f_i])
    /\ SetLocals(FreshLocals)
    /\ cand_i' = 1
    /\ pc' = "eval_cands"
    /\ UNCHANGED <<file_indexes, pattern_indexes, f_i, p_i>>
    /\ UNCHANGED <<match_vars, input_vars, record_vars, norm_vars, ver_vars>>

\* Lines 12-35: the next candidate of the list is examined.
EvalCandidate ==
    /\ pc = "eval_cands"
    /\ cand_i <= Len(fuzzy_license_matches[f_i])
    /\ SetLocals(ExamineCandidate(Locals, fuzzy_license_matches[f_i][cand_i]))
    /\ cand_i' = cand_i + 1
    /\ UNCHANGED <<run_vars, match_vars, input_vars, record_vars, norm_vars, ver_vars>>

\* A variant of the store that does not wait for the end of the loop.
StoreEarly(f) == cand_i > 1

\* Lines 36-37 run once the loop over the candidates has ended.
StoreWhenDone(f) == cand_i > Len(fuzzy_license_matches[f])

\* Lines 36-37: best_fuzzy_match.license_name is appended to license_names
\* and best_fuzzy_match is assigned to the record.  With best_fuzzy_match
\* still None the attribute access raises.
EvalStore ==
    /\ pc = "eval_cands"
    /\ StoreWhenDone(f_i)
    /\ IF best_fuzzy_match = <<>>
       THEN /\ pc' = "raised"
            /\ UNCHANGED <<f_i, record_vars>>
       ELSE /\ license_names' =
                   [license_names EXCEPT
                       ![f_i] = Append(@, best_fuzzy_match[1].license_name)]
            /\ fuzzy_license_match' =
                   [fuzzy_license_match EXCEPT ![f_i] = best_fuzzy_match]
            /\ match_writes' = [match_writes EXCEPT ![f_i] = @ + 1]
            /\ NextFile
            /\ UNCHANGED fuzzy_license_matches
    /\ UNCHANGED <<file_indexes, pattern_indexes, p_i>>
    /\ UNCHANGED <<match_vars, input_vars, eval_vars, norm_vars, ver_vars>>

RunNext ==
    \/ BuildFileIndexes
    \/ BuildPatternIndexes
    \/ CompareIndexed
    \/ CompareInFile
    \/ ComparePrepared
    \/ EvalSkipFile
    \/ EvalEnterFile
    \/ EvalCandidate
    \/ EvalStore

Spec == RunInit /\ [][RunNext]_vars

(***************************************************************************)
(* The evaluator on arbitrary candidate lists (SpecEval): the records hold *)
(* MatchResults as a sweep leaves them, with match_percent above 50, an    *)
(* expected version or None and a list of found versions or None.          *)
(***************************************************************************)
MaxCands == 3

CandidatePercents == {60, 90}

\* <<expected_version, found_version>> of a candidate.
CandidateVersions ==
    {<<PyStr("2.0"), PyList(<<"2.0">>)>>,
     <<PyStr("2.0"), PyList(<<"3.0">>)>>,
     <<PyStr("2.0"), PyList(<<"3.0", "2.0">>)>>,
     <<PyStr("2.0"), PyNone>>,
     <<PyNone, PyNone>>,
     <<PyNone, PyList(<<"2.0">>)>>}

\* The license a candidate at a position of the list was matched against.
CandidateNames == <<"L1", "L2", "L3", "L4", "L5", "L6">>

Candidate(percent, versions, n) ==
    [MatchResult(<<"a", "b", "c">>, PctOf(percent), 0, 5) EXCEPT
        !.expected_version = versions[1],
        !.found_version = versions[2],
        !.license_name = PyStr(CandidateNames[n])]

RECURSIVE TotalLen(_, _)
TotalLen(sizes, f) == IF f = 0 THEN 0 ELSE sizes[f] + TotalLen(sizes, f - 1)

\* The numbers of candidates of the records: at most MaxCands in all, the
\* longer lists on the first record and at most one candidate on a later one.
RecordSizes ==
    {sizes \in [Files -> 0..MaxCands] :
        /\ TotalLen(sizes, NumFiles) <= MaxCands
        /\ \A f \in Files : f > 1 => sizes[f] <= 1}

\* The slots <<f, n>> of the candidate lists of the given sizes.
Slots(sizes) == {slot \in Files \X (1..MaxCands) : slot[2] <= sizes[slot[1]]}

\* license_names before the evaluator runs: an earlier scan has named the
\* first file.
PriorNames == [f \in Files |-> IF f = 1 THEN <<PyStr("HDR")>> ELSE <<>>]

EvalInit ==
    /\ sweep = "indexed"
    /\ file_content = <<>>
    /\ licenses = <<>>
    /\ file_indexes = <<>>
    /\ pattern_indexes = <<>>
    /\ pc = "eval_file"
    /\ f_i = 1
    /\ p_i = 1
    /\ \E sizes \in RecordSizes :
          \E c \in [Slots(sizes) -> CandidatePercents \X CandidateVersions] :
             fuzzy_license_matches =
                 [f \in Files |->
                     [n \in 1..sizes[f] |-> Candidate(c[<<f, n>>][1], c[<<f, n>>][2], n)]]
    /\ license_names = PriorNames
    /\ fuzzy_license_match = EmptyLists
    /\ match_writes = [f \in Files |-> 0]
    /\ EvalLocalsUnset
    /\ MatchIdle
    /\ NormIdle
    /\ VerIdle

EvalNext ==
    \/ EvalSkipFile
    \/ EvalEnterFile
    \/ EvalCandidate
    \/ EvalStore

SpecEval == EvalInit /\ [][EvalNext]_vars

(***************************************************************************)
(* One call of _extract_versions on a text of up to MaxVerLen tokens       *)
(* (SpecVersions).                                                         *)
(***************************************************************************)
MaxVerLen == 5

\* Tokens of the texts given to _extract_versions.
VersionAlphabet == {"version", "v", "v2", "2", "2.0", "3", "a"}

VersionsInit ==
    /\ ver_pc = "text"
    /\ ver_text \in SeqsUpTo(VersionAlphabet, MaxVerLen)
    /\ ver_result = PyNone
    /\ MatchIdle
    /\ RunIdle
    /\ NormIdle

\* ver_result = _extract_versions(ver_text)
ExtractVersionsCall ==
    /\ ver_pc = "text"
    /\ ver_result' = ExtractVersions(ver_text)
    /\ ver_pc' = "done"
    /\ UNCHANGED ver_text
    /\ UNCHANGED <<match_vars, input_vars, run_vars, record_vars, eval_vars,
                   norm_vars>>

VersionsNext == ExtractVersionsCall

SpecVersions == VersionsInit /\ [][VersionsNext]_vars

(***************************************************************************)
(* utils.remove_punctuation_and_normalize_text (SpecNorm).  Here a text is *)
(* the sequence of its characters; an ASCII character is named by itself   *)
(* and any other by its code point.  The characters of the model:          *)
(*   a A 1 . \ & ! and the space;                                          *)
(*   U+FF01 FULLWIDTH EXCLAMATION MARK, whose NFKC form is "!";            *)
(*   U+0301 COMBINING ACUTE ACCENT (category Mn), which composes with a    *)
(*   and A to U+00E1 and U+00C1.                                           *)
(***************************************************************************)
MaxTextLen == 4

\* Characters of the texts given to the normalizer.
NormAlphabet == {"a", "A", "1", ".", "\\", "&", " ", "U+FF01", "U+0301"}

\* string.punctuation, as far as the characters of the model go.
Punctuation == {".", "\\", "&", "!"}

\* str.isdigit()
IsDigitChar(ch) == ch = "1"

\* re.sub(r'\\&\.', '.', text)
RECURSIVE SubEscapedDots(_)
SubEscapedDots(text) ==
    IF text = <<>> THEN <<>>
    ELSE IF Len(text) >= 3 /\ SubSeq(text, 1, 3) = <<"\\", "&", ".">>
    THEN <<".">> \o SubEscapedDots(SubSeq(text, 4, Len(text)))
    ELSE <<Head(text)>> \o SubEscapedDots(Tail(text))

\* The test of the loop of remove_punctuation_keep_decimal_dots for
\* text[n - 1]: not punctuation, or a dot with a digit on both sides.
Keeps(text, n) ==
    \/ text[n] \notin Punctuation
    \/ /\ text[n] = "."
       /\ n > 1 /\ IsDigitChar(text[n - 1])
       /\ n < Len(text) /\ IsDigitChar(text[n + 1])

RECURSIVE KeptFrom(_, _)
KeptFrom(text, n) ==
    IF n > Len(text) THEN <<>>
    ELSE (IF Keeps(text, n) THEN <<text[n]>> ELSE <<>>) \o KeptFrom(text, n + 1)

\* remove_punctuation_keep_decimal_dots
RemovePunctuationKeepDecimalDots(text) == KeptFrom(SubEscapedDots(text), 1)

\* The compatibility decomposition of one character.
Decomposed(ch) ==
    IF ch = "U+FF01" THEN <<"!">>
    ELSE IF ch = "U+00E1" THEN <<"a", "U+0301">>
    ELSE IF ch = "U+00C1" THEN <<"A", "U+0301">>
    ELSE <<ch>>

RECURSIVE Decompose(_)
Decompose(text) ==
    IF text = <<>> THEN <<>> ELSE Decomposed(Head(text)) \o Decompose(Tail(text))

\* The canonical composition: a or A takes the accent that follows it.
RECURSIVE Compose(_)
Compose(text) ==
    IF text = <<>> THEN <<>>
    ELSE IF Len(text) >= 2 /\ Head(text) \in {"a", "A"} /\ text[2] = "U+0301"
    THEN <<IF Head(text) = "a" THEN "U+00E1" ELSE "U+00C1">>
         \o Compose(SubSeq(text, 3, Len(text)))
    ELSE <<Head(text)>> \o Compose(Tail(text))

\* unicodedata.normalize("NFKC", value)
Nfkc(text) == Compose(Decompose(text))

\* The characters whose unicodedata.category starts with "M" are dropped.
StripMarks(text) == SelectSeq(text, LAMBDA ch : ch # "U+0301")

\* str.casefold(), character by character.
Casefold(text) ==
    [n \in 1..Len(text) |-> IF text[n] = "A" THEN "a"
                            ELSE IF text[n] = "U+00C1" THEN "U+00E1"
                            ELSE text[n]]

\* re.sub(r"\s+", " ", value)
RECURSIVE CollapseWhitespace(_)
CollapseWhitespace(text) ==
    IF text = <<>> THEN <<>>
    ELSE IF Len(text) >= 2 /\ Head(text) = " " /\ text[2] = " "
    THEN CollapseWhitespace(Tail(text))
    ELSE <<Head(text)>> \o CollapseWhitespace(Tail(text))

\* value.strip()
RECURSIVE StripText(_)
StripText(text) ==
    IF text = <<>> THEN text
    ELSE IF Head(text) = " " THEN StripText(Tail(text))
    ELSE IF text[Len(text)] = " " THEN StripText(SubSeq(text, 1, Len(text) - 1))
    ELSE text

\* remove_punctuation_and_normalize_text
RemovePunctuationAndNormalizeText(value) ==
    StripText(CollapseWhitespace(Casefold(StripMarks(Nfkc(
        RemovePunctuationKeepDecimalDots(value))))))

NormInit ==
    /\ norm_pc = "raw"
    /\ raw_value \in SeqsUpTo(NormAlphabet, MaxTextLen)
    /\ normalized = <<>>
    /\ renormalized = <<>>
    /\ MatchIdle
    /\ RunIdle
    /\ VerIdle

\* normalized = remove_punctuation_and_normalize_text(raw_value)
NormalizeOnce ==
    /\ norm_pc = "raw"
    /\ normalized' = RemovePunctuationAndNormalizeText(raw_value)
    /\ norm_pc' = "once"
    /\ UNCHANGED <<raw_value, renormalized>>
    /\ UNCHANGED <<match_vars, input_vars, run_vars, record_vars, eval_vars,
                   ver_vars>>

\* renormalized = remove_punctuation_and_normalize_text(normalized)
NormalizeAgain ==
    /\ norm_pc = "once"
    /\ renormalized' = RemovePunctuationAndNormalizeText(normalized)
    /\ norm_pc' = "twice"
    /\ UNCHANGED <<raw_value, normalized>>
    /\ UNCHANGED <<match_vars, input_vars, run_vars, record_vars, eval_vars,
                   ver_vars>>

NormNext ==
    \/ NormalizeOnce
    \/ NormalizeAgain

SpecNorm == NormInit /\ [][NormNext]_vars

(***************************************************************************)
(* Properties of a single matcher call (SpecMatch).                        *)
(***************************************************************************)
\* C1: whatever best_match_indexed holds as best_result or returns, and
\* whatever fuzzy_match_in_file / fuzzy_match_prepared return, has a
\* match_percent in [0, 100]: the matched tokens counted, for every anchor
\* pair visited and every gap_lookahead, never exceed the pattern's token
\* count.
C1_PercentInRange ==
    best_result # <<>> =>
        LET pct == best_result[1].match_percent
        IN /\ pct.den = Len(pattern_tokens)
           /\ pct.den > 0
           /\ 0 <= pct.num
           /\ pct.num <= 100 * pct.den

\* A call of best_match_indexed that walked from several anchor pairs of a
\* file longer than the pattern and returned a full match.
C1_Witness ==
    /\ call = "indexed" /\ mpc = "done" /\ walks >= 2
    /\ Len(file_tokens) > Len(pattern_tokens)
    /\ best_result # <<>>
    /\ best_result[1].match_percent.num = 100 * best_result[1].match_percent.den

\* The file and the pattern share a run of k consecutive equal tokens.
SharesAnchor(ft, pt, k) ==
    \E i \in 0..(Len(ft) - k), j \in 0..(Len(pt) - k) :
        \A d \in 1..k : ft[i + d] = pt[j + d]

SharesToken(ft, pt) == \E m \in 1..Len(ft), n \in 1..Len(pt) : ft[m] = pt[n]

\* C8: when the file has no tokens, or the pattern has fewer than
\* anchor_size tokens, or file and pattern share no anchor_size-gram,
\* best_match_indexed never enters its loops: no walk is made and the value
\* it returns is None.
C8_NoAnchorNoMatch ==
    (/\ call = "indexed"
     /\ \/ file_tokens = <<>>
        \/ Len(pattern_tokens) < anchor_size
        \/ ~SharesAnchor(file_tokens, pattern_tokens, anchor_size))
    => /\ mpc \in {"start", "done"}
       /\ walks = 0
       /\ best_result = <<>>

\* A finished call on a file and a pattern, each long enough, that share
\* tokens but no anchor.
C8_Witness ==
    /\ call = "indexed" /\ mpc = "done"
    /\ Len(file_tokens) >= anchor_size /\ Len(pattern_tokens) >= anchor_size
    /\ SharesToken(file_tokens, pattern_tokens)
    /\ ~SharesAnchor(file_tokens, pattern_tokens, anchor_size)
    /\ best_result = <<>> /\ walks = 0

(***************************************************************************)
(* Properties of the sweeps (Spec).                                        *)
(***************************************************************************)
\* What best_match_indexed can return for file f and pattern p.
Returned(f, p) ==
    BestMatchIndexed(FileIndex(file_content[f], DEFAULT_ANCHOR_SIZE),
                     PatternIndex(licenses[p].text, DEFAULT_ANCHOR_SIZE),
                     DEFAULT_ANCHOR_SIZE, DEFAULT_GAP_LOOKAHEAD)

\* The comparison of file f with pattern p scores above 50.
ScoresAbove50(f, p) ==
    \E r \in Returned(f, p) : r # <<>> /\ r[1].match_percent.num > 50 * r[1].match_percent.den

ScoresExactly50(f, p) ==
    \E r \in Returned(f, p) : r # <<>> /\ r[1].match_percent.num = 50 * r[1].match_percent.den

\* The sweep has finished the comparison of file f with pattern p.
Compared(f, p) ==
    \/ pc \in {"eval_file", "eval_cands", "done"}
    \/ pc \in {"sweep", "raised"} /\ (f < f_i \/ (f = f_i /\ p < p_i))

NameOfPattern(p) == PyStr(GetFileNameFromPathWithoutExtension(licenses[p].path))

\* The entries file f's list holds for pattern p.
EntriesFor(f, p) ==
    {n \in 1..Len(fuzzy_license_matches[f]) :
        fuzzy_license_matches[f][n].license_name = NameOfPattern(p)}

\* C2: in a run of fuzzy_match_assessment_files_for_licenses every
\* MatchResult in every file's fuzzy_license_matches has a match_percent
\* strictly above 50, and a comparison that scored 50 or less, or returned
\* nothing, has left no entry in the list.
C2_StoredAbove50 ==
    sweep = "indexed" =>
        \A f \in Files :
            /\ \A n \in 1..Len(fuzzy_license_matches[f]) :
                  LET pct == fuzzy_license_matches[f][n].match_percent
                  IN pct.num > 50 * pct.den
            /\ \A p \in Patterns :
                  (Compared(f, p) /\ ~ScoresAbove50(f, p)) => EntriesFor(f, p) = {}

\* A finished run in which a file was compared with a pattern it matches at
\* exactly 50 percent and with one it matches above 50: only the second is in
\* its list.
C2_Witness ==
    /\ sweep = "indexed" /\ pc = "done"
    /\ \E f \in Files, p, q \in Patterns :
          /\ ScoresExactly50(f, p) /\ EntriesFor(f, p) = {}
          /\ ScoresAbove50(f, q) /\ EntriesFor(f, q) # {}

\* C9: every comparison of the indexed sweep that scores above 50 stores a
\* MatchResult carrying the expected version of the pattern's name and the
\* list of versions found in the matched substring (None without a version
\* cue), and the sweep never raises.
C9_StoresVersionsWithoutRaising ==
    sweep = "indexed" =>
        /\ pc # "raised"
        /\ \A f \in Files, p \in Patterns :
              (Compared(f, p) /\ ScoresAbove50(f, p)) =>
                  \E n \in EntriesFor(f, p) :
                      LET entry == fuzzy_license_matches[f][n]
                      IN /\ entry.expected_version =
                               ExtractVersionFromName(NameOfPattern(p).items[1])
                         /\ entry.found_version =
                               ExtractVersions(entry.matched_substring)

\* C10: the found version of a stored match depends on the matched substring
\* only: two entries for the same license with the same matched substring,
\* in whichever files, carry the same found_version.
C10_FoundVersionFromSubstring ==
    \A f, g \in Files :
        \A m \in 1..Len(fuzzy_license_matches[f]), n \in 1..Len(fuzzy_license_matches[g]) :
            LET one == fuzzy_license_matches[f][m]
                other == fuzzy_license_matches[g][n]
            IN (/\ one.license_name = other.license_name
                /\ one.matched_substring = other.matched_substring)
               => one.found_version = other.found_version

\* Both index lists hold the index of every file and of every pattern.
IndexesBuilt ==
    /\ file_indexes = [f \in Files |-> FileIndex(file_content[f], DEFAULT_ANCHOR_SIZE)]
    /\ pattern_indexes =
          [p \in Patterns |-> PatternIndex(licenses[p].text, DEFAULT_ANCHOR_SIZE)]

\* No comparison has started.
NoComparisonYet ==
    /\ f_i = 1 /\ p_i = 1
    /\ \A f \in Files : fuzzy_license_matches[f] = <<>>

EvaluatorRunning == pc \in {"eval_file", "eval_cands"}

\* The pattern an entry of a match list was made for.
PatternOfEntry(entry) == CHOOSE p \in Patterns : NameOfPattern(p) = entry.license_name

\* C23: in the main pipeline all file indexes and all pattern indexes are
\* built before the first comparison starts; the evaluator runs only after
\* every comparison of every file has completed, so each file is evaluated
\* against its complete candidate list; and within a file the candidates
\* are in pattern-index order.
C23_PipelinePhases ==
    sweep = "indexed" =>
        /\ pc \in {"index_files", "index_patterns"} => NoComparisonYet
        /\ pc \in {"sweep", "raised", "eval_file", "eval_cands", "done"} => IndexesBuilt
        /\ EvaluatorRunning =>
              \A f \in Files, p \in Patterns :
                  Cardinality(EntriesFor(f, p)) = (IF ScoresAbove50(f, p) THEN 1 ELSE 0)
        /\ \A f \in Files :
              \A m, n \in 1..Len(fuzzy_license_matches[f]) :
                  m < n => PatternOfEntry(fuzzy_license_matches[f][m])
                             < PatternOfEntry(fuzzy_license_matches[f][n])

\* The evaluator examines the candidates of the first file, which has one
\* from each pattern, while a later file has candidates too.
C23_Witness ==
    /\ sweep = "indexed" /\ pc = "eval_cands" /\ f_i = 1
    /\ Len(fuzzy_license_matches[1]) = NumPatterns
    /\ \E f \in Files : f > 1 /\ fuzzy_license_matches[f] # <<>>

\* The comparison of file f with pattern q raises.
RaisesAt(f, q) ==
    \E r \in Returned(f, q) :
        r # <<>> /\ AboveKeep(r[1]) /\ FoundVersionOf(r[1]).kind = "raise"

\* The sweep of file f alone stores an entry for pattern p: the comparison
\* scores above 50 and no comparison of f up to it raises.
OwnSweepStores(f, p) ==
    ScoresAbove50(f, p) /\ \A q \in 1..p : ~RaisesAt(f, q)

\* The step of a comparison leaves every index and every input as it is,
\* leaves the lists of the other files as they are, and leaves the list of
\* file f_i as it is or appends one entry to it.
ComparisonFrame ==
    /\ UNCHANGED <<file_indexes, pattern_indexes, file_content, licenses>>
    /\ UNCHANGED <<license_names, fuzzy_license_match>>
    /\ \A g \in Files \ {f_i} : fuzzy_license_matches'[g] = fuzzy_license_matches[g]
    /\ \/ fuzzy_license_matches'[f_i] = fuzzy_license_matches[f_i]
       \/ /\ Len(fuzzy_license_matches'[f_i]) = Len(fuzzy_license_matches[f_i]) + 1
          /\ SubSeq(fuzzy_license_matches'[f_i], 1, Len(fuzzy_license_matches[f_i]))
               = fuzzy_license_matches[f_i]

\* The first half of C24, which the sweeps satisfy: a comparison changes
\* nothing but, possibly, the list of its own file, by one appended entry.
C24_ComparisonChangesOwnListOnly == [][pc = "sweep" => ComparisonFrame]_vars

\* C24: a comparison of file f with pattern p changes nothing except
\* possibly appending one MatchResult to f's own list; hence the final match
\* list of each file is the same for every order in which the per-file
\* sweeps are executed: when the run has ended, the list of each file holds
\* what the sweep of that file alone stores.
C24_FinalListsIndependentOfOrder ==
    (sweep = "indexed" /\ pc \in {"done", "raised"}) =>
        \A f \in Files, p \in Patterns :
            OwnSweepStores(f, p) <=> EntriesFor(f, p) # {}

(***************************************************************************)
(* Properties of the evaluator (SpecEval).                                 *)
(***************************************************************************)
\* One of the candidate's found versions equals its expected version.
HasMatchingVersion(candidate) ==
    /\ candidate.expected_version.kind = "str"
    /\ candidate.found_version.kind = "list"
    /\ \E n \in 1..Len(candidate.found_version.items) :
          candidate.found_version.items[n] = candidate.expected_version.items[1]

\* The candidate has neither found versions nor an expected version.
NoVersionRequired(candidate) ==
    /\ candidate.expected_version.kind = "none"
    /\ candidate.found_version.kind = "none"

Beats(candidate, percent) ==
    candidate.match_percent.num * percent.den > percent.num * candidate.match_percent.den

\* C3: when a file's list holds a candidate with a found version equal to
\* its expected version and a candidate with the same expected version, no
\* matching found version and a higher percent, the evaluator selects the
\* first of the two, in whichever order the list holds them.
C3_VersionExactDominance ==
    \A f \in Files :
        (match_writes[f] = 1 /\ Len(fuzzy_license_matches[f]) = 2) =>
            \A e, o \in 1..2 :
                LET exact == fuzzy_license_matches[f][e]
                    other == fuzzy_license_matches[f][o]
                IN (/\ e # o
                    /\ HasMatchingVersion(exact)
                    /\ ~HasMatchingVersion(other)
                    /\ other.expected_version = exact.expected_version
                    /\ Beats(other, exact.match_percent))
                   => fuzzy_license_match[f] = <<exact>>

\* The first file was evaluated with the higher-percent candidate first and
\* the version-exact one second, and the second was selected.
C3_Witness ==
    /\ match_writes[1] = 1
    /\ Len(fuzzy_license_matches[1]) = 2
    /\ HasMatchingVersion(fuzzy_license_matches[1][2])
    /\ ~HasMatchingVersion(fuzzy_license_matches[1][1])
    /\ fuzzy_license_matches[1][1].expected_version
           = fuzzy_license_matches[1][2].expected_version
    /\ Beats(fuzzy_license_matches[1][1], fuzzy_license_matches[1][2].match_percent)
    /\ fuzzy_license_match[1] = <<fuzzy_license_matches[1][2]>>

\* The candidate the loop examines in the current step.
Examined == fuzzy_license_matches[f_i][cand_i]

BestReplaced ==
    /\ pc = "eval_cands"
    /\ prior_match_version_was_exact
    /\ best_fuzzy_match' # best_fuzzy_match

\* C4 as stated: once prior_match_version_was_exact is true, the best is
\* replaced only by a candidate one of whose found versions equals its
\* expected version, with a percent above best_exact_match_percent.
C4_OnlyVersionExactReplaces ==
    [][BestReplaced =>
          /\ HasMatchingVersion(Examined)
          /\ Beats(Examined, best_exact_match_percent)]_vars

\* C4, amended: once prior_match_version_was_exact is true, the best is
\* replaced only by a candidate with a found version equal to its expected
\* version, or with no found versions and no expected version, and only
\* when its percent is above best_exact_match_percent.
C4_OnlyExactBranchReplaces ==
    [][BestReplaced =>
          /\ HasMatchingVersion(Examined) \/ NoVersionRequired(Examined)
          /\ Beats(Examined, best_exact_match_percent)
          /\ best_fuzzy_match' = <<Examined>>]_vars

\* After a version-exact first candidate, a second candidate without any
\* version and with a higher percent has become the best.
C4_Witness ==
    /\ pc = "eval_cands" /\ f_i = 1 /\ cand_i = 3
    /\ prior_match_version_was_exact
    /\ HasMatchingVersion(fuzzy_license_matches[1][1])
    /\ NoVersionRequired(fuzzy_license_matches[1][2])
    /\ Beats(fuzzy_license_matches[1][2], fuzzy_license_matches[1][1].match_percent)
    /\ best_fuzzy_match = <<fuzzy_license_matches[1][2]>>

TakeExact(loc, candidate) ==
    [best_match_percent |-> candidate.match_percent,
     best_exact_match_percent |-> candidate.match_percent,
     best_fuzzy_match |-> <<candidate>>,
     prior_match_version_was_exact |-> TRUE]

TakePercent(loc, candidate) ==
    [loc EXCEPT !.best_match_percent = candidate.match_percent,
                !.best_fuzzy_match = <<candidate>>]

\* The three branches in the order the claim gives them.
StatedStep(loc, candidate) ==
    IF HasMatchingVersion(candidate)
    THEN IF Beats(candidate, loc.best_exact_match_percent)
         THEN TakeExact(loc, candidate) ELSE loc
    ELSE IF ~loc.prior_match_version_was_exact
            /\ Beats(candidate, loc.best_match_percent)
    THEN TakePercent(loc, candidate)
    ELSE IF candidate.expected_version.kind = "none"
            /\ Beats(candidate, loc.best_exact_match_percent)
    THEN TakeExact(loc, candidate)
    ELSE loc

\* The branches in the order the code tests them: a candidate with found
\* versions takes the version-exact or the percent-only branch; one without
\* takes the exact-equivalent branch when it has no expected version and the
\* percent-only branch otherwise.
CodeOrderStep(loc, candidate) ==
    IF HasMatchingVersion(candidate) \/ NoVersionRequired(candidate)
    THEN IF Beats(candidate, loc.best_exact_match_percent)
         THEN TakeExact(loc, candidate) ELSE loc
    ELSE IF ~loc.prior_match_version_was_exact
            /\ Beats(candidate, loc.best_match_percent)
    THEN TakePercent(loc, candidate)
    ELSE loc

RECURSIVE StatedMachine(_, _, _)
StatedMachine(list, n, loc) ==
    IF n > Len(list) THEN loc
    ELSE StatedMachine(list, n + 1, StatedStep(loc, list[n]))

RECURSIVE CodeOrderMachine(_, _, _)
CodeOrderMachine(list, n, loc) ==
    IF n > Len(list) THEN loc
    ELSE CodeOrderMachine(list, n + 1, CodeOrderStep(loc, list[n]))

StatedBest(list) == StatedMachine(list, 1, FreshLocals).best_fuzzy_match

CodeOrderBest(list) == CodeOrderMachine(list, 1, FreshLocals).best_fuzzy_match

\* C5 as stated: the best match the evaluator stores equals the result of the
\* machine that tries, per candidate, the version-exact branch, else the
\* percent-only branch, else the exact-equivalent branch.
C5_EqualsStatedMachine ==
    \A f \in Files :
        match_writes[f] = 1 =>
            fuzzy_license_match[f] = StatedBest(fuzzy_license_matches[f])

\* C5, amended: the best match the evaluator stores equals the result of the
\* machine that, per candidate in list order, takes the version-exact branch
\* for a candidate with a found version equal to its expected version, the
\* exact-equivalent branch for a candidate with no found versions and no
\* expected version, and the percent-only branch for every other candidate.
C5_EqualsCodeOrderMachine ==
    \A f \in Files :
        match_writes[f] = 1 =>
            fuzzy_license_match[f] = CodeOrderBest(fuzzy_license_matches[f])

\* An evaluated file for which the order of the branches matters.
C5_Witness ==
    /\ match_writes[1] = 1
    /\ fuzzy_license_match[1] # StatedBest(fuzzy_license_matches[1])
    /\ fuzzy_license_match[1] = CodeOrderBest(fuzzy_license_matches[1])

\* The evaluator is past file f.
Evaluated(f) == pc = "done" \/ f < f_i

\* C6: a file with candidates gets its fuzzy_license_match assigned exactly
\* once and exactly one name appended to its license_names, the name of the
\* candidate selected from the whole list; neither happens before the loop
\* over its candidates has ended.
C6_StoredOncePerFile ==
    \A f \in Files :
        /\ match_writes[f] <= 1
        /\ match_writes[f] = 0 =>
              /\ fuzzy_license_match[f] = <<>>
              /\ license_names[f] = PriorNames[f]
        /\ match_writes[f] = 1 =>
              /\ fuzzy_license_matches[f] # <<>>
              /\ Evaluated(f)
              /\ fuzzy_license_match[f] # <<>>
              /\ fuzzy_license_match[f] = CodeOrderBest(fuzzy_license_matches[f])
              /\ license_names[f] =
                    Append(PriorNames[f], fuzzy_license_match[f][1].license_name)
        /\ (Evaluated(f) /\ fuzzy_license_matches[f] # <<>>) => match_writes[f] = 1

\* A file with three candidates, the second of which was selected.
C6_Witness ==
    /\ pc = "done"
    /\ Len(fuzzy_license_matches[1]) = 3
    /\ match_writes[1] = 1
    /\ fuzzy_license_match[1] = <<fuzzy_license_matches[1][2]>>
    /\ license_names[1] = <<PyStr("HDR"), PyStr("L2")>>

\* C7: the evaluator never changes a fuzzy_license_matches list or a
\* MatchResult in it; and for a file whose list is empty it neither enters
\* the loop nor changes fuzzy_license_match or license_names.
C7_EmptyListUntouched ==
    [][/\ fuzzy_license_matches' = fuzzy_license_matches
       /\ pc' = "eval_cands" => fuzzy_license_matches[f_i'] # <<>>
       /\ \A f \in Files :
             fuzzy_license_matches[f] = <<>> =>
                 /\ fuzzy_license_match'[f] = fuzzy_license_match[f]
                 /\ license_names'[f] = license_names[f]
                 /\ match_writes'[f] = match_writes[f]]_vars

\* A finished pass over a first file without candidates and a second file
\* with candidates.
C7_Witness ==
    /\ pc = "done"
    /\ fuzzy_license_matches[1] = <<>>
    /\ fuzzy_license_matches[2] # <<>>
    /\ match_writes[1] = 0 /\ match_writes[2] = 1
    /\ license_names[1] = PriorNames[1]
    /\ fuzzy_license_match[1] = <<>>

\* The evaluator has just stored the best match of file f: lines 36-37 have
\* run for f and nothing after them has.
JustStored(f) ==
    /\ match_writes[f] = 1
    /\ \/ pc = "eval_file" /\ f = f_i - 1
       \/ pc = "done" /\ f = NumFiles

\* Every candidate of the list has a match_percent above 0.
AllPositive(list) == \A n \in 1..Len(list) : Beats(list[n], PctOf(0))

\* C26: for a non-empty candidate list whose candidates all have a
\* match_percent above 0, the best match is non-null from the first examined
\* candidate on and is one of the candidates examined so far, so the loop
\* ends with an element of the list, reading its license_name never raises,
\* and the stored match is an element of the file's list.
C26_BestIsCandidate ==
    /\ pc # "raised"
    /\ (pc = "eval_cands" /\ cand_i > 1 /\ AllPositive(fuzzy_license_matches[f_i])) =>
           /\ best_fuzzy_match # <<>>
           /\ \E n \in 1..(cand_i - 1) :
                  best_fuzzy_match = <<fuzzy_license_matches[f_i][n]>>
    /\ \A f \in Files :
           (JustStored(f) /\ AllPositive(fuzzy_license_matches[f])) =>
               \E n \in 1..Len(fuzzy_license_matches[f]) :
                   /\ fuzzy_license_match[f] = <<fuzzy_license_matches[f][n]>>
                   /\ license_names[f][Len(license_names[f])]
                          = fuzzy_license_matches[f][n].license_name

\* The loop over three candidates none of which takes the exact branch has
\* ended with the third as the best, and the store is about to read it.
C26_Witness ==
    /\ pc = "eval_cands" /\ f_i = 1 /\ cand_i = 4
    /\ Len(fuzzy_license_matches[1]) = 3
    /\ AllPositive(fuzzy_license_matches[1])
    /\ \A n \in 1..3 :
           /\ ~HasMatchingVersion(fuzzy_license_matches[1][n])
           /\ ~NoVersionRequired(fuzzy_license_matches[1][n])
    /\ best_fuzzy_match = <<fuzzy_license_matches[1][3]>>

\* The candidate takes the exact branch: one of its found versions equals
\* its expected version, or it has no found versions and no expected version.
TakesExactBranch(candidate) ==
    HasMatchingVersion(candidate) \/ NoVersionRequired(candidate)

\* The positions the verdict is chosen among: the exact-branch candidates
\* when there is one, every candidate otherwise.
VerdictPool(list) ==
    IF \E n \in 1..Len(list) : TakesExactBranch(list[n])
    THEN {n \in 1..Len(list) : TakesExactBranch(list[n])}
    ELSE 1..Len(list)

\* The earliest position of maximal percent in the pool.
VerdictPosition(list) ==
    CHOOSE n \in VerdictPool(list) :
        \A k \in VerdictPool(list) :
            /\ ~Beats(list[k], list[n].match_percent)
            /\ k < n => Beats(list[n], list[k].match_percent)

\* The loop of lines 12-35 over a whole list, from fresh locals.
RECURSIVE ExamineAll(_, _, _)
ExamineAll(list, n, loc) ==
    IF n > Len(list) THEN loc
    ELSE ExamineAll(list, n + 1, ExamineCandidate(loc, list[n]))

\* The list in the opposite order.
Reversed(list) == [n \in 1..Len(list) |-> list[Len(list) + 1 - n]]

\* C27: the stored best is the earliest candidate of maximal percent among
\* the exact-branch candidates when the list has one, and the earliest
\* candidate of maximal percent overall otherwise; the loop run over the
\* list in the opposite order selects a candidate of the same percent and
\* of the same branch, the earliest such in that order.
C27_VerdictIndependentOfOrder ==
    \A f \in Files :
        JustStored(f) =>
            LET list == fuzzy_license_matches[f]
                best == list[VerdictPosition(list)]
                back == Reversed(list)
                other == ExamineAll(back, 1, FreshLocals).best_fuzzy_match
            IN /\ fuzzy_license_match[f] = <<best>>
               /\ other = <<back[VerdictPosition(back)]>>
               /\ other[1].match_percent = best.match_percent
               /\ TakesExactBranch(other[1]) <=> TakesExactBranch(best)

\* A just stored verdict over three candidates: a percent-only candidate of the
\* highest percent first, then two exact-branch candidates of equal lower
\* percent, of which the earlier was selected.
C27_Witness ==
    /\ JustStored(1)
    /\ Len(fuzzy_license_matches[1]) = 3
    /\ ~TakesExactBranch(fuzzy_license_matches[1][1])
    /\ TakesExactBranch(fuzzy_license_matches[1][2])
    /\ TakesExactBranch(fuzzy_license_matches[1][3])
    /\ Beats(fuzzy_license_matches[1][1], fuzzy_license_matches[1][2].match_percent)
    /\ fuzzy_license_matches[1][2].match_percent = fuzzy_license_matches[1][3].match_percent
    /\ fuzzy_license_match[1] = <<fuzzy_license_matches[1][2]>>

(***************************************************************************)
(* Properties of the anchor map (SpecMatch).                               *)
(***************************************************************************)
\* best_match_indexed has returned best_result.
IndexedDone == call = "indexed" /\ mpc = "done"

\* The start indices of the anchors of a token sequence, and the tuple of
\* tokens starting at one of them.
AnchorStarts(tokens, k) == 0..(Len(tokens) - k)
TupleAt(tokens, s, k) == [m \in 1..k |-> tokens[s + m]]

\* map is the anchor map of tokens: its keys are the tuples that start at
\* some index, and the list of a key holds, in ascending order and once
\* each, the indices where that tuple starts.
IsAnchorMapOf(map, tokens, k) ==
    /\ DOMAIN map = {TupleAt(tokens, s, k) : s \in AnchorStarts(tokens, k)}
    /\ \A key \in DOMAIN map :
          LET positions == map[key]
          IN /\ \A n \in 1..(Len(positions) - 1) : positions[n] < positions[n + 1]
             /\ {positions[n] : n \in 1..Len(positions)}
                  = {s \in AnchorStarts(tokens, k) : TupleAt(tokens, s, k) = key}

\* C12: the anchor map built from a token sequence is fully determined by
\* the tokens: every start index s with s + anchor_size <= len(tokens)
\* appears exactly once, in the list of the key equal to the tokens
\* s .. s + anchor_size - 1; every list is ascending; there are no other keys
\* or positions; and the maps the two index builders make of the same
\* tokens are equal.
C12_AnchorMapDetermined ==
    IndexedDone =>
        /\ IsAnchorMapOf(FileIndex(file_tokens, anchor_size).trigram_positions,
                         file_tokens, anchor_size)
        /\ IsAnchorMapOf(PatternIndex(pattern_tokens, anchor_size).anchor_positions,
                         pattern_tokens, anchor_size)
        /\ FileIndex(file_tokens, anchor_size).trigram_positions
             = PatternIndex(file_tokens, anchor_size).anchor_positions
        /\ PatternIndex(pattern_tokens, anchor_size).anchor_keys
             = DOMAIN PatternIndex(pattern_tokens, anchor_size).anchor_positions

\* The indexed matcher has used the maps of a file with a repeated anchor
\* and a second anchor.
C12_Witness ==
    /\ IndexedDone /\ best_result # <<>>
    /\ LET map == AnchorPositions(file_tokens, anchor_size)
       IN /\ Cardinality(DOMAIN map) >= 2
          /\ \E key \in DOMAIN map : Len(map[key]) >= 2

(***************************************************************************)
(* Properties of the indexed matcher's result (SpecMatch).                 *)
(***************************************************************************)
\* The offsets (in tokens) at which the whole pattern occurs in the file.
Occurrences ==
    {o \in 0..(Len(file_tokens) - Len(pattern_tokens)) :
        \A n \in 1..Len(pattern_tokens) : file_tokens[o + n] = pattern_tokens[n]}

\* C14: if the whole pattern, of at least anchor_size tokens, occurs
\* contiguously inside the file, best_match_indexed returns a match with
\* match_percent = 100.
C14_ContainedPatternScores100 ==
    (/\ IndexedDone
     /\ Len(pattern_tokens) >= anchor_size
     /\ Occurrences # {})
    => /\ best_result # <<>>
       /\ best_result[1].match_percent.num = 100 * best_result[1].match_percent.den

\* The matcher has returned for a pattern that occurs inside a longer file,
\* and not at its start.
C14_Witness ==
    /\ IndexedDone
    /\ Len(pattern_tokens) >= anchor_size
    /\ Occurrences # {} /\ 0 \notin Occurrences
    /\ Len(file_tokens) > Len(pattern_tokens)
    /\ best_result # <<>>

(***************************************************************************)
(* Properties of the walk (SpecMatch).                                     *)
(***************************************************************************)
\* The (i, j0) pairs best_match_indexed walks from: the positions of the
\* anchors file and pattern share.
AnchorPairs ==
    IF file_tokens = <<>> \/ Len(pattern_tokens) < anchor_size THEN {}
    ELSE {ij \in (0..(Len(file_tokens) - anchor_size))
                   \X (0..(Len(pattern_tokens) - anchor_size)) :
             \A d \in 1..anchor_size :
                file_tokens[ij[1] + d] = pattern_tokens[ij[2] + d]}

\* The walk states at the head of the while loop, from state w on.
RECURSIVE WalkVisited(_)
WalkVisited(w) ==
    IF WalkRunning(file_tokens, pattern_tokens, w)
    THEN {w} \cup WalkVisited(WalkStep(file_tokens, pattern_tokens, w, gap_lookahead))
    ELSE {}

\* Every state in which some walk of the call makes a step.
CallWalkSteps ==
    UNION {WalkVisited(WalkInit(ij[1] + anchor_size, ij[2] + anchor_size)) :
              ij \in AnchorPairs}

\* The distances within gap_lookahead at which the current pattern token
\* lies ahead in the file, and the current file token ahead in the pattern.
FileDistances(w) ==
    {d \in 1..gap_lookahead :
        /\ w.fi + d < Len(file_tokens)
        /\ file_tokens[w.fi + d + 1] = pattern_tokens[w.pj + 1]}
PatternDistances(w) ==
    {d \in 1..gap_lookahead :
        /\ w.pj + d < Len(pattern_tokens)
        /\ pattern_tokens[w.pj + d + 1] = file_tokens[w.fi + 1]}
Nearest(D) == CHOOSE d \in D : \A e \in D : d <= e

TokensDiffer(w) == file_tokens[w.fi + 1] # pattern_tokens[w.pj + 1]

\* The step the walk is stated to make from w.
StatedWalkStep(w) ==
    LET DF == FileDistances(w)
        DP == PatternDistances(w)
    IN IF ~TokensDiffer(w)
       THEN [fi |-> w.fi + 1, pj |-> w.pj + 1, matches |-> w.matches + 1,
             last_match_file_idx |-> w.fi]
       ELSE IF DF # {} /\ DP # {}
       THEN IF Nearest(DF) <= Nearest(DP)
            THEN [w EXCEPT !.fi = w.fi + Nearest(DF)]
            ELSE [w EXCEPT !.pj = w.pj + Nearest(DP)]
       ELSE IF DF # {} THEN [w EXCEPT !.fi = w.fi + Nearest(DF)]
       ELSE IF DP # {} THEN [w EXCEPT !.pj = w.pj + Nearest(DP)]
       ELSE [w EXCEPT !.fi = w.fi + 1, !.pj = w.pj + 1]

PairMatches(ij) ==
    anchor_size + AlignWithGaps(file_tokens, pattern_tokens, ij[1] + anchor_size,
                                ij[2] + anchor_size, gap_lookahead)[1]

MaxPairMatches ==
    CHOOSE m \in {PairMatches(ij) : ij \in AnchorPairs} :
        \A ij \in AnchorPairs : PairMatches(ij) <= m

\* C17: the match_percent best_match_indexed returns is the maximum, over
\* every shared anchor and every (i, j0) pair of its positions, of
\* (anchor_size + extra matches of the walk from that pair) / n_pattern * 100,
\* in whatever order the shared anchors are iterated.
C17_PercentIsMaximumOverPairs ==
    (IndexedDone /\ AnchorPairs # {}) =>
        /\ best_result # <<>>
        /\ best_result[1].match_percent
             = [num |-> 100 * MaxPairMatches, den |-> Len(pattern_tokens)]

\* The call has returned after iterating two shared anchors whose pairs
\* score differently, the first pair in index order not being the best.
C17_Witness ==
    /\ IndexedDone /\ best_result # <<>>
    /\ Cardinality(CommonAnchors(FileIndex(file_tokens, anchor_size),
                                 PatternIndex(pattern_tokens, anchor_size))) >= 2
    /\ \E ij \in AnchorPairs :
          /\ PairMatches(ij) < MaxPairMatches
          /\ \A other \in AnchorPairs : ij[1] <= other[1]

\* The file indices at which the walk from pair ij counts a match, and the
\* last file token counted as matched in the alignment of ij: the last of
\* those, or the anchor's last token when there is none.
CountedFileIndices(ij) ==
    {w.fi : w \in {v \in WalkVisited(WalkInit(ij[1] + anchor_size,
                                              ij[2] + anchor_size)) :
                      ~TokensDiffer(v)}}
LastCounted(ij) ==
    IF CountedFileIndices(ij) = {} THEN ij[1] + anchor_size - 1
    ELSE CHOOSE x \in CountedFileIndices(ij) : \A y \in CountedFileIndices(ij) : y <= x

\* The file index at which the walk from ij stops.
WalkEnd(ij) ==
    WalkFrom(file_tokens, pattern_tokens,
             WalkInit(ij[1] + anchor_size, ij[2] + anchor_size), gap_lookahead).fi

\* The character offsets of file token n (0-based) in the normalized text,
\* whose tokens are one character apart, and the length of that text.
RECURSIVE OffsetOf(_)
OffsetOf(n) == IF n = 0 THEN 0 ELSE OffsetOf(n - 1) + Len(file_tokens[n]) + 1
EndOffsetOf(n) == OffsetOf(n) + Len(file_tokens[n + 1])
FileTextLen == IF file_tokens = <<>> THEN 0 ELSE EndOffsetOf(Len(file_tokens) - 1)

\* The returned result is the alignment of pair ij.
IsAlignmentOf(r, ij) ==
    /\ r.match_percent = [num |-> 100 * PairMatches(ij), den |-> Len(pattern_tokens)]
    /\ r.start_index = OffsetOf(ij[1])
    /\ r.end_index = EndOffsetOf(LastCounted(ij))
    /\ r.matched_substring
         = [n \in 1..(LastCounted(ij) - ij[1] + 1) |-> file_tokens[ij[1] + n]]

\* C18: for the alignment best_match_indexed retains, start_index is the
\* start offset of the anchor's first file token and end_index the end
\* offset of the last file token counted as matched (the anchor's last token
\* when the walk counts none); tokens the walk visits after the last counted
\* match are not included; 0 <= start_index < end_index <= len(file text),
\* and the last matched index is a valid file token index.
C18_SpanOfRetainedAlignment ==
    (IndexedDone /\ best_result # <<>>) =>
        /\ \E ij \in AnchorPairs :
              /\ IsAlignmentOf(best_result[1], ij)
              /\ LastCounted(ij) \in 0..(Len(file_tokens) - 1)
              /\ LastCounted(ij) >= ij[1] + anchor_size - 1
        /\ 0 <= best_result[1].start_index
        /\ best_result[1].start_index < best_result[1].end_index
        /\ best_result[1].end_index <= FileTextLen

\* The call has returned an alignment whose walk counted an extra match and
\* then visited file tokens it did not count: the span ends before them.
C18_Witness ==
    /\ IndexedDone /\ best_result # <<>>
    /\ \A ij \in AnchorPairs :
          IsAlignmentOf(best_result[1], ij) =>
             /\ CountedFileIndices(ij) # {}
             /\ LastCounted(ij) < WalkEnd(ij) - 1
    /\ best_result[1].end_index < FileTextLen

\* The state in which the walk from pair ij leaves the loop.
WalkFinal(ij) ==
    WalkFrom(file_tokens, pattern_tokens,
             WalkInit(ij[1] + anchor_size, ij[2] + anchor_size), gap_lookahead)

\* C25: the walk _align_with_gaps terminates: each iteration of its loop
\* strictly increases the file index, the pattern index, or both, and
\* decreases neither, and the loop ends as soon as either index reaches the
\* end of its sequence.
C25_WalkTerminates ==
    IndexedDone =>
        /\ \A w \in CallWalkSteps :
              LET next == WalkStep(file_tokens, pattern_tokens, w, gap_lookahead)
              IN /\ w.fi < Len(file_tokens) /\ w.pj < Len(pattern_tokens)
                 /\ next.fi >= w.fi /\ next.pj >= w.pj
                 /\ next.fi > w.fi \/ next.pj > w.pj
        /\ \A ij \in AnchorPairs :
              /\ WalkFinal(ij).fi <= Len(file_tokens)
              /\ WalkFinal(ij).pj <= Len(pattern_tokens)
              /\ WalkFinal(ij).fi = Len(file_tokens)
                    \/ WalkFinal(ij).pj = Len(pattern_tokens)

\* The call has returned after a walk of several iterations that ended at
\* the end of the pattern with file tokens left, and after an iteration that
\* jumped more than one token ahead.
C25_Witness ==
    /\ IndexedDone
    /\ \E ij \in AnchorPairs :
          /\ Cardinality(WalkVisited(WalkInit(ij[1] + anchor_size,
                                              ij[2] + anchor_size))) >= 2
          /\ WalkFinal(ij).pj = Len(pattern_tokens)
          /\ WalkFinal(ij).fi < Len(file_tokens)
    /\ \E w \in CallWalkSteps :
          \/ WalkStep(file_tokens, pattern_tokens, w, gap_lookahead).fi > w.fi + 1
          \/ WalkStep(file_tokens, pattern_tokens, w, gap_lookahead).pj > w.pj + 1

\* The walk of _align_with_gaps from (i, j0) with gap_lookahead = 0.
GaplessWalk(ij) ==
    WalkFrom(file_tokens, pattern_tokens,
             WalkInit(ij[1] + anchor_size, ij[2] + anchor_size), 0)

\* The strict walk of best_fuzzy_substring_match from (i, j0).
StrictWalk(ij) ==
    StrictWalkFrom(file_tokens, pattern_tokens, StrictInit(ij[1], ij[2], anchor_size))

\* The matches the gapless alignment of (i, j0) counts, anchor included.
GaplessMatches(ij) ==
    anchor_size + AlignWithGaps(file_tokens, pattern_tokens, ij[1] + anchor_size,
                                ij[2] + anchor_size, 0)[1]

StrictPercent ==
    LET r == BestFuzzySubstringMatch(file_tokens, pattern_tokens, anchor_size)
    IN IF r = <<>> THEN <<>> ELSE <<r[1].match_percent>>

\* C28: with gap_lookahead = 0, best_match_indexed returns the match_percent
\* best_fuzzy_substring_match returns on the same tokens and anchor size
\* (and None exactly when it returns None), and from every (i, j0) start the
\* two walks count the same matches and end with the same last matched
\* file index; what best_fuzzy_substring_match returns is the highest
\* percent the gapless alignments of the shared anchors reach.
C28_GaplessEqualsStrict ==
    /\ (IndexedDone /\ gap_lookahead = 0) =>
           /\ (IF best_result = <<>> THEN <<>> ELSE <<best_result[1].match_percent>>)
                  = StrictPercent
           /\ \A ij \in AnchorPairs :
                  LET extra == AlignWithGaps(file_tokens, pattern_tokens,
                                             ij[1] + anchor_size, ij[2] + anchor_size, 0)
                      gapless == AlignPair(file_tokens, pattern_tokens,
                                           ij[1], ij[2], anchor_size, 0)
                      strict == StrictAlignPair(file_tokens, pattern_tokens,
                                                ij[1], ij[2], anchor_size)
                  IN /\ anchor_size + extra[1] = StrictWalk(ij).matches
                     /\ (IF extra[1] > 0 THEN extra[2] ELSE ij[1] + anchor_size - 1)
                            = StrictWalk(ij).last_match_file_idx
                     /\ GaplessWalk(ij).fi = StrictWalk(ij).fi
                     /\ GaplessWalk(ij).pj = StrictWalk(ij).pj
                     /\ gapless.match_percent = strict.match_percent
                     /\ gapless.matched_substring = strict.matched_substring
                     /\ gapless.start_index = strict.start_index
                     /\ gapless.end_index = strict.end_index
    /\ (call = "strict" /\ mpc = "done") =>
           IF AnchorPairs = {} THEN best_result = <<>>
           ELSE /\ best_result # <<>>
                /\ \E ij \in AnchorPairs :
                       best_result[1].match_percent
                          = Percent(GaplessMatches(ij), Len(pattern_tokens))
                /\ \A ij \in AnchorPairs :
                       ~PctGT(Percent(GaplessMatches(ij), Len(pattern_tokens)),
                              best_result[1].match_percent)

\* A gapless indexed call that returned a match below 100 percent after
\* walks from two starts or more, one of which passed a mismatch and
\* counted a match after it.
C28_Witness ==
    /\ IndexedDone /\ gap_lookahead = 0
    /\ best_result # <<>>
    /\ PctGT(PctOf(100), best_result[1].match_percent)
    /\ Cardinality(AnchorPairs) >= 2
    /\ \E ij \in AnchorPairs :
           /\ GaplessWalk(ij).matches >= 1
           /\ GaplessWalk(ij).matches < GaplessWalk(ij).fi - (ij[1] + anchor_size)
           /\ GaplessWalk(ij).last_match_file_idx = GaplessWalk(ij).fi - 1

\* The <<file index, pattern index>> pairs the alignment of (i, j0) counts
\* as matches: the anchor's pairs and the pairs at which the walk counts.
MatchedPairs(ij) ==
    {<<ij[1] + d, ij[2] + d>> : d \in 0..(anchor_size - 1)}
    \cup {<<w.fi, w.pj>> :
             w \in {v \in WalkVisited(WalkInit(ij[1] + anchor_size,
                                               ij[2] + anchor_size)) :
                       ~TokensDiffer(v)}}

\* C29: the pairs one anchor-plus-walk alignment counts as matches hold
\* equal tokens and are strictly increasing in both indices, there are as
\* many of them as matches counted, so the count of every alignment is at
\* most the LCS length of _lcs_dp_with_indices and the returned
\* match_percent at most the LCS percent.
C29_AlignmentWithinLcs ==
    (IndexedDone /\ AnchorPairs # {}) =>
        LET lcs_len == LcsDpWithIndices(pattern_tokens, file_tokens)[1]
        IN /\ \A ij \in AnchorPairs :
                  LET pairs == MatchedPairs(ij)
                  IN /\ \A x \in pairs : file_tokens[x[1] + 1] = pattern_tokens[x[2] + 1]
                     /\ \A x, y \in pairs : x[1] < y[1] <=> x[2] < y[2]
                     /\ \A x, y \in pairs : x[1] = y[1] => x = y
                     /\ Cardinality(pairs) = PairMatches(ij)
                     /\ PairMatches(ij) <= lcs_len
           /\ best_result # <<>>
           /\ ~PctGT(best_result[1].match_percent, Percent(lcs_len, Len(pattern_tokens)))

\* A returned alignment that skipped tokens between two counted pairs and
\* counts fewer matches than the LCS holds, next to an alignment from another
\* start that reaches the LCS length.
C29_Witness ==
    /\ IndexedDone /\ gap_lookahead >= 1 /\ best_result # <<>>
    /\ \E ij \in AnchorPairs :
           /\ PairMatches(ij) < LcsDpWithIndices(pattern_tokens, file_tokens)[1]
           /\ PairMatches(ij) > anchor_size
           /\ \E x, y \in MatchedPairs(ij) :
                  /\ y[1] > x[1] + 1 \/ y[2] > x[2] + 1
                  /\ \A z \in MatchedPairs(ij) : ~(x[1] < z[1] /\ z[1] < y[1])
    /\ \E ij \in AnchorPairs :
           PairMatches(ij) = LcsDpWithIndices(pattern_tokens, file_tokens)[1]

(***************************************************************************)
(* Properties of the LCS matchers (SpecMatch).                             *)
(***************************************************************************)
\* The index pairs the DP returns for the call's pattern and file.
CallPairs == LcsDpWithIndices(pattern_tokens, file_tokens)[2]
LcsCallDone == call \in {"in_file", "prepared"} /\ mpc = "done"

\* C13: for every pattern and file, the matched substring of the strong
\* branch (all LCS-aligned file tokens) has at least as many file tokens as
\* the matched substring of the weak branch (the longest contiguous run of
\* the same pairs).
C13_StrongNotShorterThanWeak ==
    LcsCallDone =>
        Len(JoinTokens(file_tokens, StrongMatchedTextIndices(CallPairs)))
          >= Len(JoinTokens(file_tokens, WeakMatchedTextIndices(CallPairs)))

\* An LCS matcher has returned a match whose alignment is not contiguous:
\* the strong substring is strictly longer than the weak one.
C13_Witness ==
    /\ LcsCallDone /\ best_result # <<>>
    /\ Len(StrongMatchedTextIndices(CallPairs))
         > Len(WeakMatchedTextIndices(CallPairs))
    /\ Len(WeakMatchedTextIndices(CallPairs)) >= 2

\* The number of times token w occurs in tokens, and the sum over the
\* tokens of S of the smaller of the two counts.
CountOf(tokens, w) == Cardinality({n \in DOMAIN tokens : tokens[n] = w})

RECURSIVE SumOfMinCounts(_)
SumOfMinCounts(S) ==
    IF S = {} THEN 0
    ELSE LET w == CHOOSE x \in S : TRUE
             cp == CountOf(pattern_tokens, w)
             cf == CountOf(file_tokens, w)
         IN (IF cp <= cf THEN cp ELSE cf) + SumOfMinCounts(S \ {w})

\* The upper bound times the pattern length: 100 * the sum over the distinct
\* pattern tokens of min(count in pattern, count in file).
UpperBoundTimesLen ==
    100 * SumOfMinCounts({pattern_tokens[n] : n \in DOMAIN pattern_tokens})

PreparedDone ==
    /\ call = "prepared" /\ mpc = "done"
    /\ pattern_tokens # <<>> /\ file_tokens # <<>>

RECURSIVE IsSubsequence(_, _)
IsSubsequence(s, t) ==
    IF s = <<>> THEN TRUE
    ELSE IF t = <<>> THEN FALSE
    ELSE IF Head(s) = Head(t) THEN IsSubsequence(Tail(s), Tail(t))
    ELSE IsSubsequence(s, Tail(t))

\* The pattern tokens at the indices of S, in order.
PatternAt(S) ==
    LET chosen == SelectSeq([n \in DOMAIN pattern_tokens |-> n], LAMBDA n : n \in S)
    IN [k \in 1..Len(chosen) |-> pattern_tokens[chosen[k]]]

\* The length of a longest common subsequence of pattern and file.
LongestCommonLen ==
    LET sizes == {Cardinality(S) : S \in {T \in SUBSET DOMAIN pattern_tokens :
                                          IsSubsequence(PatternAt(T), file_tokens)}}
    IN CHOOSE k \in sizes : \A l \in sizes : l <= k

\* dp[i][j] of the call.
DpAt(i, j) == LcsTable(pattern_tokens, file_tokens)[i + 1][j + 1]

\* The positions (i, j) the backtrack is stated to pass, from (i, j) on: on
\* equal tokens both indices go down, on a mismatch the pattern index when
\* dp[i-1][j] >= dp[i][j-1] and the file index otherwise (row i of the table
\* is dp[i + 1], column j its entry j + 1).
RECURSIVE StatedBacktrackPath(_, _, _)
StatedBacktrackPath(dp, i, j) ==
    IF i = 0 \/ j = 0 THEN <<>>
    ELSE <<<<i, j>>>> \o
         (IF pattern_tokens[i] = file_tokens[j]
          THEN StatedBacktrackPath(dp, i - 1, j - 1)
          ELSE IF dp[i][j + 1] >= dp[i + 1][j]
          THEN StatedBacktrackPath(dp, i - 1, j)
          ELSE StatedBacktrackPath(dp, i, j - 1))

CallBacktrackPath ==
    StatedBacktrackPath(LcsTable(pattern_tokens, file_tokens),
                        Len(pattern_tokens), Len(file_tokens))

\* The 0-based pairs of the positions of the path with equal tokens, in
\* ascending order.
StatedPairs ==
    LET hits == SelectSeq(CallBacktrackPath,
                          LAMBDA ij : pattern_tokens[ij[1]] = file_tokens[ij[2]])
    IN [n \in 1..Len(hits) |-> <<hits[Len(hits) + 1 - n][1] - 1,
                                 hits[Len(hits) + 1 - n][2] - 1>>]

\* C19: _lcs_dp_with_indices returns the length of a longest common
\* subsequence of pattern and file and a list of index pairs of exactly
\* that length; every pair refers to equal tokens, and pattern indices and
\* file indices are strictly increasing; on a mismatch the backtrack
\* decrements the pattern index when dp[i-1][j] >= dp[i][j-1] and the file
\* index otherwise.
C19_LcsLengthAndPairs ==
    LcsCallDone =>
        LET lcs == LcsDpWithIndices(pattern_tokens, file_tokens)
            lcs_len == lcs[1]
            pairs == lcs[2]
        IN /\ lcs_len = LongestCommonLen
           /\ Len(pairs) = lcs_len
           /\ \A n \in 1..Len(pairs) :
                 /\ pairs[n][1] \in 0..(Len(pattern_tokens) - 1)
                 /\ pairs[n][2] \in 0..(Len(file_tokens) - 1)
                 /\ pattern_tokens[pairs[n][1] + 1] = file_tokens[pairs[n][2] + 1]
           /\ \A n \in 1..(Len(pairs) - 1) :
                 pairs[n][1] < pairs[n + 1][1] /\ pairs[n][2] < pairs[n + 1][2]
           /\ pairs = StatedPairs

\* An LCS matcher has returned after a backtrack that met, on a mismatch, a
\* tie between dp[i-1][j] and dp[i][j-1] with both positive.
C19_Witness ==
    /\ LcsCallDone /\ best_result # <<>>
    /\ \E n \in 1..Len(CallBacktrackPath) :
          LET i == CallBacktrackPath[n][1]
              j == CallBacktrackPath[n][2]
          IN /\ pattern_tokens[i] # file_tokens[j]
             /\ DpAt(i - 1, j) = DpAt(i, j - 1)
             /\ DpAt(i - 1, j) > 0

\* The blocks <<s, e>> of consecutive pairs of an alignment in which each
\* pair follows the one before by one in both indices, and the longest of
\* them.
ContiguousBlocks(pairs) ==
    {se \in (1..Len(pairs)) \X (1..Len(pairs)) :
        /\ se[1] <= se[2]
        /\ \A n \in se[1]..(se[2] - 1) :
              /\ pairs[n + 1][1] = pairs[n][1] + 1
              /\ pairs[n + 1][2] = pairs[n][2] + 1}
BlockLen(se) == se[2] - se[1] + 1
LongestBlocks(pairs) ==
    LET blocks == ContiguousBlocks(pairs)
    IN {se \in blocks : \A other \in blocks : BlockLen(other) <= BlockLen(se)}

\* The file tokens of pairs s .. e of an alignment.
FileTokensOf(pairs, s, e) ==
    [n \in 1..(e - s + 1) |-> file_tokens[pairs[s + n - 1][2] + 1]]

\* The call reached the scoring: the DP was run.
LcsScored == LcsCallDone /\ dp_runs = 1

\* C20: in the LCS matchers, when LCS length / pattern length * 100 >= 80
\* the result's match_percent is that full LCS percent and its matched
\* substring is made of all LCS-aligned file tokens; below 80 the
\* match_percent is the length of the selected longest contiguous run /
\* pattern length * 100 and the matched substring is made of that run's
\* file tokens only.
C20_StrongAndWeakScoring ==
    LcsScored =>
        LET lcs == LcsDpWithIndices(pattern_tokens, file_tokens)
            lcs_len == lcs[1]
            pairs == lcs[2]
            m == Len(pattern_tokens)
        IN IF lcs_len = 0 THEN best_result = <<>>
           ELSE /\ best_result # <<>>
                /\ IF 100 * lcs_len >= STRONG_MATCH_THRESHOLD * m
                   THEN /\ best_result[1].match_percent
                             = [num |-> 100 * lcs_len, den |-> m]
                        /\ best_result[1].matched_substring
                             = FileTokensOf(pairs, 1, Len(pairs))
                   ELSE \E se \in LongestBlocks(pairs) :
                           /\ best_result[1].match_percent
                                = [num |-> 100 * BlockLen(se), den |-> m]
                           /\ best_result[1].matched_substring
                                = FileTokensOf(pairs, se[1], se[2])

\* A strong match at the threshold: the file's copy of a five-token pattern
\* lacks one token, and the aligned file tokens are not contiguous.
C20_Witness ==
    /\ LcsScored /\ best_result # <<>>
    /\ 100 * Len(CallPairs) = STRONG_MATCH_THRESHOLD * Len(pattern_tokens)
    /\ \A se \in LongestBlocks(CallPairs) : BlockLen(se) < Len(CallPairs)

\* C21: for a non-empty list of LCS index pairs
\* _select_longest_contiguous_run returns a non-empty consecutive slice of
\* the list in which each pair exceeds the one before by exactly 1 in both
\* indices, of the maximum length over all such runs, and the earliest one
\* when several runs have that length; for the empty list it returns the
\* empty list.
C21_EarliestLongestRun ==
    LcsScored =>
        LET pairs == CallPairs
            run == SelectLongestContiguousRun(pairs)
        IN IF pairs = <<>> THEN run = <<>>
           ELSE /\ run # <<>>
                /\ \E se \in LongestBlocks(pairs) :
                      /\ run = [n \in 1..BlockLen(se) |-> pairs[se[1] + n - 1]]
                      /\ \A other \in LongestBlocks(pairs) : se[1] <= other[1]

\* A weak match of a three-pair alignment with several runs of the maximum
\* length.
C21_Witness ==
    /\ LcsScored /\ best_result # <<>>
    /\ 100 * Len(CallPairs) < STRONG_MATCH_THRESHOLD * Len(pattern_tokens)
    /\ Len(CallPairs) >= 3
    /\ Cardinality(LongestBlocks(CallPairs)) >= 2

\* The span fields of two results agree, or both calls returned None.
SameSpan(r, s) ==
    IF r = <<>> \/ s = <<>> THEN r = <<>> /\ s = <<>>
    ELSE /\ r[1].match_percent = s[1].match_percent
         /\ r[1].matched_substring = s[1].matched_substring
         /\ r[1].start_index = s[1].start_index
         /\ r[1].end_index = s[1].end_index

AboveKeepThreshold(r) == r # <<>> /\ PctGT(r[1].match_percent, PctOf(MIN_KEEP_PERCENT))

BelowKeepThreshold(r) == r = <<>> \/ PctGT(PctOf(MIN_KEEP_PERCENT), r[1].match_percent)

\* C30: for non-empty pattern and file, the LCS length is at most the
\* multiset overlap of their tokens; when fuzzy_match_in_file returns a match
\* above 50 percent, fuzzy_match_prepared returns the same match_percent,
\* matched substring, start_index and end_index; when fuzzy_match_prepared
\* returns None without running the DP, fuzzy_match_in_file returns None or
\* a match below 50 percent; and whenever the DP is run the two results
\* have the same span fields.
C30_PruningIsSound ==
    (LcsCallDone /\ pattern_tokens # <<>> /\ file_tokens # <<>>) =>
        LET unpruned == IF call = "in_file" THEN best_result
                        ELSE FuzzyMatchInFile(pattern_tokens, file_tokens)
            pruned == IF call = "prepared" THEN best_result
                      ELSE FuzzyMatchPrepared(pattern_tokens, file_tokens)
            runs_dp == PreparedRunsDp(pattern_tokens, file_tokens)
        IN /\ LcsDpWithIndices(pattern_tokens, file_tokens)[1]
                 <= Overlap(pattern_tokens, file_tokens)
           /\ AboveKeepThreshold(unpruned) => (pruned # <<>> /\ SameSpan(unpruned, pruned))
           /\ (pruned = <<>> /\ ~runs_dp) => BelowKeepThreshold(unpruned)
           /\ runs_dp => SameSpan(unpruned, pruned)
           /\ call = "prepared" => (dp_runs = 0 <=> ~runs_dp)

\* fuzzy_match_prepared has returned None without running the DP for a
\* pattern and a file that share a token, where fuzzy_match_in_file returns
\* a match below 50 percent.
C30_Witness ==
    /\ call = "prepared" /\ mpc = "done"
    /\ best_result = <<>> /\ dp_runs = 0
    /\ pattern_tokens # <<>> /\ file_tokens # <<>>
    /\ FuzzyMatchInFile(pattern_tokens, file_tokens) # <<>>
    /\ PctGT(PctOf(MIN_KEEP_PERCENT),
             FuzzyMatchInFile(pattern_tokens, file_tokens)[1].match_percent)
    /\ Overlap(pattern_tokens, file_tokens)
          > LcsDpWithIndices(pattern_tokens, file_tokens)[1]

(***************************************************************************)
(* Properties of the normalizer (SpecNorm).                                *)
(***************************************************************************)
\* C11: remove_punctuation_and_normalize_text is idempotent: applied to its
\* own result it returns that result.
C11_NormalizeIdempotent ==
    norm_pc = "twice" => renormalized = normalized

(***************************************************************************)
(* Properties of _extract_versions (SpecVersions).                         *)
(***************************************************************************)
\* The numeric parts of the version cues of the text, in the order the cues
\* occur, and the place of the first cue with numeric part g.
CueNumbers == VersionMatchesFrom(ver_text, 0)
FirstCueOf(g) == CHOOSE n \in DOMAIN CueNumbers :
                    CueNumbers[n] = g /\ \A k \in 1..(n - 1) : CueNumbers[k] # g

\* C22: _extract_versions returns the numeric parts of the text's version
\* cues with duplicates removed and the order of first occurrence kept, and
\* returns None, not an empty list, when the text is empty or has no cue.
C22_DistinctVersionsInFirstSeenOrder ==
    ver_pc = "done" =>
        IF ver_text = <<>> \/ CueNumbers = <<>>
        THEN ver_result = PyNone
        ELSE /\ ver_result.kind = "list"
             /\ LET versions == ver_result.items
                IN /\ versions # <<>>
                   /\ {versions[n] : n \in DOMAIN versions}
                        = {CueNumbers[n] : n \in DOMAIN CueNumbers}
                   /\ \A a, b \in DOMAIN versions :
                         a < b => FirstCueOf(versions[a]) < FirstCueOf(versions[b])

\* The call has returned for a text with three cues, the third repeating the
\* numeric part of the first.
C22_Witness ==
    /\ ver_pc = "done"
    /\ Len(CueNumbers) = 3
    /\ CueNumbers[1] = CueNumbers[3] /\ CueNumbers[1] # CueNumbers[2]
    /\ ver_result = PyList(<<CueNumbers[1], CueNumbers[2]>>)

====
